---- MODULE Spec2Model ----
(***************************************************************************)
(* Photo intelligence pipeline, scripts/photo-intelligence/pipeline.py.    *)
(*                                                                         *)
(* The batch orchestrator `main` is modelled as a sequence of runs over an *)
(* unchanged list of discovered image files.  A run may end normally, be   *)
(* killed at any statement (Crash), or die on an exception that `main`     *)
(* does not catch.  The files it owns (checkpoint.json, photos.parquet,    *)
(* photos.json, clusters.json) survive from one run to the next; memory    *)
(* does not.  open(path, "w") truncates the file before json.dump fills    *)
(* it, so each write is two steps with the truncated file in between.      *)
(***************************************************************************)
EXTENDS Integers, Sequences, FiniteSets, TLC

(* Bounds of the model. *)
NumFiles == 2
MaxBatch == 2
MaxRuns == 2
\* The largest image handed to the crop calculator, and the most detections
\* (faces and persons together) found on it.
MaxWidth == 9
MaxHeight == 7
MaxDetections == 2
\* The hex digits of a perceptual hash, and the largest similarity threshold.
HashLen == 1
MaxThreshold == 2
\* The most records handed to the near-duplicate pass.
MaxPhotos == 3
\* The most records handed to the scene pass.
MaxScenePhotos == 4
\* The most records handed to the people pass.
MaxPeoplePhotos == 3
\* The most records in all_results when the clusters report is built.
MaxReportPhotos == 4
\* The most discovered paths when the batch loop is taken on its own.
MaxLoopFiles == 3

(***************************************************************************)
(* Values.                                                                 *)
(***************************************************************************)
\* process_photo's `return None`; `if result:` is `result # None`.
None == <<>>

\* A file that does not exist / that was opened with "w" and not yet
\* completely written (it does not parse as JSON, nor load as Parquet).
Absent == [st |-> "absent"]
Partial == [st |-> "partial"]

\* find_image_files: the distinct paths of the input directory, in
\* discovery order.  The directory does not change between runs.
image_files == [k \in 1..NumFiles |-> k]

Paths == {image_files[k] : k \in 1..Len(image_files)}

\* What the external collaborators do for one photo: every step works, the
\* hasher fails inside compute_hashes, or Image.open raises in process_photo.
ExtOutcomes == {"ok", "hash_error", "open_error"}

\* compute_hashes: catches its own exception and returns empty strings.
compute_hashes(hash_ok) ==
    IF hash_ok THEN [phash |-> <<8, 15>>, dhash |-> <<3, 12>>]
    ELSE [phash |-> <<>>, dhash |-> <<>>]

\* process_photo: a record, or None when an exception reaches its handler.
\* Of the record, filepath and hashes are kept; the fields the orchestration
\* never reads (dimensions, detections, embeddings, crops, is_monochrome) are
\* left out, and a record is taken to be a value json.dump can encode.
process_photo(image_path, ext) ==
    IF ext = "open_error" THEN None
    ELSE <<[filepath |-> image_path, hashes |-> compute_hashes(ext # "hash_error")]>>

\* The paths of the records of a result list.
FilePaths(results) == {results[k].filepath : k \in 1..Len(results)}

\* The number of records of a result list whose filepath is p.
CountOf(p, results) == Cardinality({k \in 1..Len(results) : results[k].filepath = p})

IsPrefix(s, t) == Len(s) <= Len(t) /\ SubSeq(t, 1, Len(s)) = s

(***************************************************************************)
(* The checkpoint file.                                                    *)
(***************************************************************************)
\* A checkpoint written without the "results" key.
CheckpointDataNoResults(pf, results) ==
    [st |-> "json", has_pf |-> TRUE, processed_files |-> pf,
     results_kind |-> "missing", results |-> <<>>, total_processed |-> 0]

\* checkpoint_data written after each batch (json.dump of the dict).
CheckpointData(pf, results) ==
    [st |-> "json", has_pf |-> TRUE, processed_files |-> pf,
     results_kind |-> "list", results |-> results,
     total_processed |-> Len(results)]

\* A checkpoint of the older format: processed_files only, no "results" key.
LegacyCheckpoint ==
    [st |-> "json", has_pf |-> TRUE, processed_files |-> {image_files[1]},
     results_kind |-> "missing", results |-> <<>>, total_processed |-> 0]

\* A checkpoint whose "results" is null: json.load succeeds, len() raises.
NullResultsCheckpoint ==
    [st |-> "json", has_pf |-> TRUE, processed_files |-> {image_files[1]},
     results_kind |-> "null", results |-> <<>>, total_processed |-> 0]

InitialCheckpoints == {Absent, LegacyCheckpoint, NullResultsCheckpoint}

\* What the try block of the checkpoint load leaves behind when the except
\* handler is missing its two resets: whatever was assigned before the raise.
LoadCheckpointNoReset(file) ==
    IF file.st # "json"
    THEN [processed_files |-> {}, all_results |-> <<>>, load_failed |-> TRUE]
    ELSE IF file.results_kind = "null"
    THEN [processed_files |-> IF file.has_pf THEN file.processed_files ELSE {},
          all_results |-> <<>>, load_failed |-> TRUE]
    ELSE [processed_files |-> IF file.has_pf THEN file.processed_files ELSE {},
          all_results |-> IF file.results_kind = "list" THEN file.results ELSE <<>>,
          load_failed |-> FALSE]

\* A load that forgets the "results" of the checkpoint.
LoadCheckpointNoResults(file) ==
    IF file.st # "json" \/ file.results_kind = "null"
    THEN [processed_files |-> {}, all_results |-> <<>>, load_failed |-> TRUE]
    ELSE [processed_files |-> IF file.has_pf THEN file.processed_files ELSE {},
          all_results |-> <<>>, load_failed |-> FALSE]

\* The try/except that loads an existing checkpoint: json.load raises on a
\* file that does not parse; processed_files defaults to [] and all_results
\* keeps [] when the key is missing; len(all_results) raises on null; the
\* handler resets both to empty.
LoadCheckpoint(file) ==
    IF file.st # "json" \/ file.results_kind = "null"
    THEN [processed_files |-> {}, all_results |-> <<>>, load_failed |-> TRUE]
    ELSE [processed_files |-> IF file.has_pf THEN file.processed_files ELSE {},
          all_results |-> IF file.results_kind = "list" THEN file.results ELSE <<>>,
          load_failed |-> FALSE]

\* --fresh that leaves the checkpoint file in place.
UnlinkCheckpointKept(file) == file

\* checkpoint_path.unlink()
UnlinkCheckpoint(file) == Absent

(***************************************************************************)
(* The batch loop's pure parts.                                            *)
(***************************************************************************)
\* A slice that runs to the end of the list.
BatchSliceToEnd(files, i, bs) == SubSeq(files, i + 1, Len(files))

\* image_files[i:i + batch_size], i counted from 0.
BatchSlice(files, i, bs) ==
    SubSeq(files, i + 1, IF i + bs < Len(files) THEN i + bs ELSE Len(files))

\* A filter that skips nothing.
UnprocessedAll(b, pf) == b

\* [f for f in batch if f not in processed_files]
Unprocessed(b, pf) == SelectSeq(b, LAMBDA f : f \notin pf)

\* An inner loop that stops at the first photo that fails.
RestAfterBreak(result, rest) == IF result = None THEN <<>> ELSE rest

\* The inner for loop goes on to the rest of the batch whatever the result.
RestAfter(result, rest) == rest

\* A loop body that never adds the path.
AddProcessedNever(pf, image_path, result) == pf

\* A loop body that records the path whether or not a record came back.
AddProcessedAlways(pf, image_path, result) == pf \cup {image_path}

\* if result: processed_files.add(image_path)
AddProcessed(pf, image_path, result) ==
    IF result # None THEN pf \cup {image_path} ELSE pf

\* An extend that keeps the records of the last batch only.
ExtendReplacing(results, new_results) == new_results

\* all_results.extend(batch_results)
Extend(results, new_results) == results \o new_results

\* One row of the tabular summary per record.
ParquetRows(results) ==
    [k \in 1..Len(results) |->
        [filepath |-> results[k].filepath,
         phash |-> results[k].hashes.phash,
         dhash |-> results[k].hashes.dhash]]

FileOf(content) == [st |-> "data", content |-> content]

(***************************************************************************)
(* State.                                                                  *)
(***************************************************************************)
VARIABLES
    run,              \* number of runs started so far
    pc,               \* where main stands
    fresh,            \* args.fresh of the current run
    batch_size,       \* args.batch_size of the current run
    processed_files,  \* main's set
    all_results,      \* main's list
    batch_results,    \* the records of the batch in flight
    i,                \* start index of the current batch, from 0
    batch,            \* the paths of the current batch still to process
    checkpoint,       \* checkpoint.json
    photos_parquet,   \* photos.parquet
    photos_json,      \* photos.json
    clusters_json,    \* clusters.json
    people_json,      \* people.json
    \* History of the current run, read by the properties only.
    attempts,         \* path -> calls of process_photo on it in this run
    failed,           \* paths for which process_photo returned None
    swallowed,        \* paths for which a step returned an empty result
    loaded_processed, \* processed_files as loaded at the start of the run
    loaded_results,   \* all_results as loaded at the start of the run
    load_failed,      \* the checkpoint existed and its load raised
    ckpt_existed,     \* the checkpoint existed when the run started
    work_batches,     \* batches that had a path to process, so far
    ckpt_writes,      \* completed checkpoint writes, so far
    ckpt_ours,        \* checkpoint.json holds what this program dumped
    passes_run,       \* clustering passes that returned
    failed_pass,      \* the clustering pass that raised, or "none"
    \* History across runs.
    prev_done,        \* the previous run ended normally
    prev_results,     \* all_results at the end of the previous run
    prev_failed,      \* failed at the end of the previous run
    crash_mem,        \* paths with a record in memory when the run crashed
    \* A call of one of the pipeline's functions on its own, outside main.
    call,             \* the arguments of the call, None when there is none
    ret               \* what the call returned, None until it returns

memory == <<processed_files, all_results, batch_results, i, batch>>
files == <<checkpoint, photos_parquet, photos_json, clusters_json, people_json>>
args == <<run, fresh, batch_size>>
run_history == <<attempts, failed, swallowed, loaded_processed, loaded_results,
                 load_failed, ckpt_existed, work_batches, ckpt_writes,
                 passes_run, failed_pass>>
past == <<prev_done, prev_results, prev_failed, crash_mem>>
main_vars == <<pc, memory, files, args, run_history, ckpt_ours, past>>
calls == <<call, ret>>
vars == <<main_vars, calls>>

Running == {"loop", "photo", "extend", "ckpt_w", "parquet", "parquet_w",
            "json", "json_w", "final", "final_parquet_w", "final_json",
            "final_json_w", "cluster"}
Stopped == {"start", "done", "crashed", "aborted"}
\* Past the batch loop.
AfterLoop == {"final", "final_parquet_w", "final_json", "final_json_w",
              "cluster", "done", "aborted"}

\* main has not started.
MainInit ==
    /\ run = 0
    /\ pc = "start"
    /\ fresh = FALSE
    /\ batch_size = 1
    /\ processed_files = {}
    /\ all_results = <<>>
    /\ batch_results = <<>>
    /\ i = 0
    /\ batch = <<>>
    /\ checkpoint \in InitialCheckpoints
    /\ photos_parquet = Absent
    /\ photos_json = Absent
    /\ clusters_json = Absent
    /\ people_json = Absent
    /\ attempts = [p \in Paths |-> 0]
    /\ failed = {}
    /\ swallowed = {}
    /\ loaded_processed = {}
    /\ loaded_results = <<>>
    /\ load_failed = FALSE
    /\ ckpt_existed = FALSE
    /\ work_batches = 0
    /\ ckpt_writes = 0
    /\ ckpt_ours = FALSE
    /\ passes_run = <<>>
    /\ failed_pass = "none"
    /\ prev_done = FALSE
    /\ prev_results = <<>>
    /\ prev_failed = {}
    /\ crash_mem = {}

Init ==
    /\ MainInit
    /\ call = None
    /\ ret = None

(***************************************************************************)
(* main, from the start of the process to the head of the batch loop.      *)
(***************************************************************************)
\* The state main holds after the if/elif on the checkpoint.
Loaded(f, file) ==
    IF ~f /\ file.st # "absent" THEN LoadCheckpoint(file)
    ELSE [processed_files |-> {}, all_results |-> <<>>, load_failed |-> FALSE]

\* A start of main with --fresh or not (f) and --batch-size bs.
StartRunWith(f, bs) ==
    /\ pc \in Stopped
    /\ run < MaxRuns
    /\ LET ld == Loaded(f, checkpoint) IN
        /\ fresh' = f
        /\ batch_size' = bs
        /\ processed_files' = ld.processed_files
        /\ all_results' = ld.all_results
        /\ checkpoint' = IF f /\ checkpoint.st # "absent"
                         THEN UnlinkCheckpoint(checkpoint) ELSE checkpoint
        /\ loaded_processed' = ld.processed_files
        /\ loaded_results' = ld.all_results
        /\ load_failed' = ld.load_failed
    /\ run' = run + 1
    /\ pc' = "loop"
    /\ batch_results' = <<>>
    /\ i' = 0
    /\ batch' = <<>>
    /\ ckpt_existed' = (checkpoint.st # "absent")
    /\ attempts' = [p \in Paths |-> 0]
    /\ failed' = {}
    /\ swallowed' = {}
    /\ work_batches' = 0
    /\ ckpt_writes' = 0
    /\ passes_run' = <<>>
    /\ failed_pass' = "none"
    /\ prev_done' = (pc = "done")
    /\ prev_results' = IF pc = "done" THEN all_results ELSE <<>>
    /\ prev_failed' = failed
    /\ crash_mem' = {}
    /\ UNCHANGED <<calls, photos_parquet, photos_json, clusters_json, people_json,
                   ckpt_ours>>

StartRun == \E f \in BOOLEAN, bs \in 1..MaxBatch : StartRunWith(f, bs)

\* The process is killed (power loss, SIGKILL, KeyboardInterrupt) or dies on an
\* exception main does not catch (an OSError of a write): memory is gone, the
\* files stay as they are.  The history of the run goes with it, except the
\* paths that failed, which the properties of the next run read.
Crash ==
    /\ pc \in Running
    /\ pc' = "crashed"
    /\ crash_mem' = FilePaths(all_results) \cup FilePaths(batch_results)
    /\ processed_files' = {}
    /\ all_results' = <<>>
    /\ batch_results' = <<>>
    /\ batch' = <<>>
    /\ i' = 0
    /\ attempts' = [p \in Paths |-> 0]
    /\ swallowed' = {}
    /\ loaded_processed' = {}
    /\ loaded_results' = <<>>
    /\ load_failed' = FALSE
    /\ ckpt_existed' = FALSE
    /\ work_batches' = 0
    /\ ckpt_writes' = 0
    /\ UNCHANGED <<calls, files, args, failed, passes_run, failed_pass, ckpt_ours,
                   prev_done, prev_results, prev_failed>>

(***************************************************************************)
(* The batch loop.                                                         *)
(***************************************************************************)
\* for i in range(0, len(image_files), batch_size): slice, filter, and
\* `continue` when nothing of the batch is left to process.
LoopHead ==
    /\ pc = "loop"
    /\ i < Len(image_files)
    /\ LET b == Unprocessed(BatchSlice(image_files, i, batch_size), processed_files) IN
        /\ batch_results' = <<>>
        /\ IF b = <<>>
           THEN /\ i' = i + batch_size
                /\ batch' = <<>>
                /\ pc' = "loop"
                /\ UNCHANGED work_batches
           ELSE /\ batch' = b
                /\ pc' = "photo"
                /\ work_batches' = work_batches + 1
                /\ UNCHANGED i
    /\ UNCHANGED <<calls, processed_files, all_results, files, args, attempts, failed,
                   swallowed, loaded_processed, loaded_results, load_failed,
                   ckpt_existed, ckpt_writes, passes_run, failed_pass,
                   ckpt_ours, past>>

\* One turn of the inner loop: process_photo, and on a record append it and
\* add the path; ext is what the collaborators do for the photo.
ProcessWith(ext) ==
    /\ pc = "photo"
    /\ batch # <<>>
    /\ LET image_path == Head(batch)
           result == process_photo(image_path, ext)
           rest == RestAfter(result, Tail(batch))
       IN
        /\ batch_results' = batch_results \o result
        /\ processed_files' = AddProcessed(processed_files, image_path, result)
        /\ batch' = rest
        /\ pc' = IF rest = <<>> THEN "extend" ELSE "photo"
        /\ attempts' = [attempts EXCEPT ![image_path] = @ + 1]
        /\ failed' = IF ext = "open_error" THEN failed \cup {image_path} ELSE failed
        /\ swallowed' = IF ext = "hash_error" THEN swallowed \cup {image_path}
                        ELSE swallowed
    /\ UNCHANGED <<calls, all_results, i, files, args, loaded_processed, loaded_results,
                   load_failed, ckpt_existed, work_batches, ckpt_writes,
                   passes_run, failed_pass, ckpt_ours, past>>

ProcessNext == \E ext \in ExtOutcomes : ProcessWith(ext)

\* all_results.extend(batch_results); open(checkpoint_path, "w") truncates.
ExtendAndOpenCheckpoint ==
    /\ pc = "extend"
    /\ all_results' = Extend(all_results, batch_results)
    /\ checkpoint' = Partial
    /\ ckpt_ours' = TRUE
    /\ pc' = "ckpt_w"
    /\ UNCHANGED <<calls, processed_files, batch_results, i, batch, photos_parquet,
                   photos_json, clusters_json, people_json, args, run_history, past>>

\* json.dump(checkpoint_data, f) runs to its end and the file is closed.
DumpCheckpoint ==
    /\ pc = "ckpt_w"
    /\ checkpoint' = CheckpointData(processed_files, all_results)
    /\ ckpt_writes' = ckpt_writes + 1
    /\ pc' = "parquet"
    /\ UNCHANGED <<calls, memory, photos_parquet, photos_json, clusters_json, people_json,
                   args, attempts, failed, swallowed, loaded_processed,
                   loaded_results, load_failed, ckpt_existed, work_batches,
                   passes_run, failed_pass, ckpt_ours, past>>

\* if all_results: photos_df.to_parquet(path) starts writing the file.
OpenParquet(from, to_w, to_skip) ==
    /\ pc = from
    /\ IF all_results # <<>>
       THEN photos_parquet' = Partial /\ pc' = to_w
       ELSE UNCHANGED photos_parquet /\ pc' = to_skip
    /\ UNCHANGED <<calls, memory, checkpoint, photos_json, clusters_json, people_json,
                   args, run_history, ckpt_ours, past>>

\* to_parquet returns.
WriteParquet(from, to) ==
    /\ pc = from
    /\ photos_parquet' = FileOf(ParquetRows(all_results))
    /\ pc' = to
    /\ UNCHANGED <<calls, memory, checkpoint, photos_json, clusters_json, people_json,
                   args, run_history, ckpt_ours, past>>

\* open(photos_json_path, "w")
OpenJson(from, to) ==
    /\ pc = from
    /\ photos_json' = Partial
    /\ pc' = to
    /\ UNCHANGED <<calls, memory, checkpoint, photos_parquet, clusters_json, people_json,
                   args, run_history, ckpt_ours, past>>

\* json.dump(all_results, f) runs to its end.
WriteJson(from, to) ==
    /\ pc = from
    /\ photos_json' = FileOf(all_results)
    /\ pc' = to
    /\ UNCHANGED <<calls, processed_files, all_results, batch_results, batch, checkpoint,
                   photos_parquet, clusters_json, people_json, args, run_history,
                   ckpt_ours, past>>

BatchOpenParquet == OpenParquet("parquet", "parquet_w", "json")
BatchWriteParquet == WriteParquet("parquet_w", "json")
BatchOpenJson == OpenJson("json", "json_w")
\* The end of the loop body: the next i of the range.
BatchWriteJson == WriteJson("json_w", "loop") /\ i' = i + batch_size

\* The range is exhausted.
LoopExit ==
    /\ pc = "loop"
    /\ i >= Len(image_files)
    /\ pc' = "final"
    /\ UNCHANGED <<calls, memory, files, args, run_history, ckpt_ours, past>>

(***************************************************************************)
(* After the loop: the final save and the clustering.                      *)
(***************************************************************************)
\* if all_results: the Parquet file and photos.json once more.
FinalOpenParquet == OpenParquet("final", "final_parquet_w", "cluster")
FinalWriteParquet == WriteParquet("final_parquet_w", "final_json")
FinalOpenJson == OpenJson("final_json", "final_json_w")
FinalWriteJson == WriteJson("final_json_w", "cluster") /\ UNCHANGED i

ClusterPasses == <<"near_duplicates", "scenes", "people">>

\* if not args.skip_clustering: the three passes one after the other, then
\* clusters.json and people.json.  args.skip_clustering is read nowhere else,
\* so it is drawn here.  The calls stand in no try block: a pass that raises
\* (cluster_scenes imports sklearn and runs DBSCAN on the embeddings) ends
\* main with the exception.
ClusteringWith(skip_clustering, raising) ==
    /\ pc = "cluster"
    /\ IF skip_clustering
       THEN /\ pc' = "done"
            /\ UNCHANGED <<clusters_json, people_json, passes_run, failed_pass>>
       ELSE IF raising = 0
       THEN /\ pc' = "done"
            /\ passes_run' = ClusterPasses
            /\ clusters_json' = FileOf(ClusterPasses)
            /\ people_json' = FileOf(<<"people">>)
            /\ UNCHANGED failed_pass
       ELSE /\ pc' = "aborted"
            /\ passes_run' = SubSeq(ClusterPasses, 1, raising - 1)
            /\ failed_pass' = ClusterPasses[raising]
            /\ UNCHANGED <<clusters_json, people_json>>
    /\ UNCHANGED <<calls, memory, checkpoint, photos_parquet, photos_json, args,
                   attempts, failed, swallowed, loaded_processed, loaded_results,
                   load_failed, ckpt_existed, work_batches, ckpt_writes,
                   ckpt_ours, past>>

Clustering ==
    \E skip_clustering \in BOOLEAN, raising \in 0..Len(ClusterPasses) :
        ClusteringWith(skip_clustering, raising)

Next ==
    \/ StartRun
    \/ Crash
    \/ LoopHead
    \/ ProcessNext
    \/ ExtendAndOpenCheckpoint
    \/ DumpCheckpoint
    \/ BatchOpenParquet
    \/ BatchWriteParquet
    \/ BatchOpenJson
    \/ BatchWriteJson
    \/ LoopExit
    \/ FinalOpenParquet
    \/ FinalWriteParquet
    \/ FinalOpenJson
    \/ FinalWriteJson
    \/ Clustering

Spec == Init /\ [][Next]_vars

(***************************************************************************)
(* Properties of the orchestrator.                                         *)
(***************************************************************************)
\* The records main holds: batch_results is part of them until the extend.
CurrentResults ==
    IF pc \in {"photo", "extend"} THEN all_results \o batch_results ELSE all_results

\* The paths whose extraction returned a record in this run.
Succeeded == {p \in Paths : attempts[p] > 0 /\ p \notin failed}

\* A run that resumed: no --fresh, and the checkpoint it found loaded.
Resumed == ~fresh /\ ckpt_existed /\ ~load_failed

\* C1: in a run started without --fresh that loads a checkpoint,
\* process_photo is never called on a path of the loaded processed_files
\* set, and within one run it is called at most once on any discovered path.
C1_NoReprocessing ==
    /\ \A p \in Paths : attempts[p] <= 1
    /\ Resumed => \A p \in loaded_processed : attempts[p] = 0

\* A resumed run that loaded records ended, having processed another path.
C1_Witness ==
    /\ pc = "done"
    /\ Resumed
    /\ loaded_results # <<>>
    /\ \E p \in loaded_processed, q \in Paths : attempts[p] = 0 /\ attempts[q] = 1

\* C2: after a crash at any moment and a restart without --fresh, at most
\* batch_size of the photos that had a record in memory before the crash
\* are absent from the results the restart loads.
C2_LossBoundedByBatch ==
    [][(pc = "crashed" /\ pc' = "loop" /\ ~fresh')
        => Cardinality(crash_mem \ FilePaths(all_results')) <= batch_size]_vars

\* processed_files and results of a checkpoint in lock-step.
LockStep(c) ==
    /\ \A p \in c.processed_files : CountOf(p, c.results) = 1
    /\ FilePaths(c.results) \subseteq c.processed_files
    /\ c.total_processed = Len(c.results)

\* C3: every checkpoint the orchestrator persists, in a fresh run or in one
\* resumed from any checkpoint file its load accepted, has processed_files
\* and results in lock-step and total_processed equal to the record count.
C3_CheckpointLockStep ==
    (ckpt_ours /\ checkpoint.st = "json") => LockStep(checkpoint)

\* C4: the checkpoint and the two snapshot files are replaced atomically: at
\* every instant each holds its complete previous or its complete new
\* content, never a partially written one.
C4_AtomicReplace ==
    /\ checkpoint # Partial
    /\ photos_parquet # Partial
    /\ photos_json # Partial

C6_FreshStart ==
    (fresh /\ ckpt_existed)
        => /\ (pc = "loop" /\ i = 0)
                => processed_files = {} /\ all_results = <<>> /\ checkpoint = Absent
           /\ pc \in AfterLoop => \A p \in Paths : attempts[p] >= 1

\* A --fresh run over a checkpoint with records ended normally.
C6_Witness ==
    /\ pc = "done"
    /\ fresh
    /\ ckpt_existed
    /\ run > 1
    /\ \A p \in Paths : attempts[p] = 1

\* C7 as stated: a path for which a step raised or returned an empty result
\* gets no record and is not added to processed_files.
C7_SkippedOnRaiseOrEmpty ==
    \A p \in failed \cup swallowed :
        /\ p \notin processed_files
        /\ CountOf(p, CurrentResults) = CountOf(p, loaded_results)

\* C7, amended: a path for which process_photo returned None (an exception
\* reached its handler) gets no record and is not added to processed_files,
\* and the next run without --fresh attempts it again; a path for which the
\* hasher failed inside compute_hashes gets a record with empty hashes and
\* is added to processed_files.
C7_SkippedOnNone ==
    /\ \A p \in failed :
        /\ p \notin processed_files
        /\ CountOf(p, CurrentResults) = CountOf(p, loaded_results)
    /\ \A p \in swallowed :
        /\ p \in processed_files
        /\ CountOf(p, CurrentResults) = CountOf(p, loaded_results) + 1
    /\ (pc \in AfterLoop /\ ~fresh) => \A p \in prev_failed : attempts[p] >= 1

\* A resumed run retried a path that failed in the run before, it failed
\* again, and another path's hasher failed.
C7_Witness ==
    /\ pc = "done"
    /\ Resumed
    /\ \E p \in prev_failed : p \in failed /\ attempts[p] = 1
    /\ swallowed # {}

\* C8: a failed extraction does not end the batch loop: every path not yet
\* processed, in that batch and the later ones, is attempted in the same
\* run, and the checkpoint of every batch with work is written.
C8_FailureContained ==
    /\ (pc \in AfterLoop /\ failed # {})
        => /\ \A p \in Paths \ loaded_processed : attempts[p] >= 1
           /\ ckpt_writes = work_batches
    /\ (pc = "loop" /\ work_batches > 0)
        => checkpoint = CheckpointData(processed_files, all_results)

\* The first path failed and the run went on to the end.
C8_Witness ==
    /\ pc = "done"
    /\ image_files[1] \in failed
    /\ \A k \in 2..Len(image_files) : attempts[image_files[k]] = 1
    /\ ckpt_writes = work_batches
    /\ work_batches > 0

\* C9: when the checkpoint file exists and its load raises, the run goes on
\* with processed_files and results empty and attempts every path.
C9_LoadFailureStartsEmpty ==
    load_failed
        => /\ pc \in Running \cup {"done", "aborted"}
           /\ (pc = "loop" /\ i = 0) => processed_files = {} /\ all_results = <<>>
           /\ pc \in AfterLoop => \A p \in Paths : attempts[p] >= 1

\* A run that found a truncated checkpoint left by a crash ended normally.
C9_Witness ==
    /\ pc = "done"
    /\ load_failed
    /\ run > 1
    /\ \A p \in Paths : attempts[p] = 1

\* C10: when a clustering pass raises, it contributes an empty list, the
\* other two passes run, the clusters report is written and main goes on.
C10_ClusteringDegrades ==
    failed_pass # "none"
        => /\ pc # "aborted"
           /\ Len(passes_run) = Len(ClusterPasses) - 1
           /\ clusters_json # Absent

\* The entries a reader finds in an output file; a file that was never
\* written, or was cut short by a crash, has none.
Entries(file) == IF file.st = "data" THEN file.content ELSE <<>>

\* C11: when a run completes, photos.json and the tabular summary each hold
\* exactly one entry per record of the accumulated results, in whatever way
\* the run was started and however many photos succeeded in it.
C11_OutputsMatchResults ==
    pc = "done"
        => /\ Entries(photos_json) = all_results
           /\ Entries(photos_parquet) = ParquetRows(all_results)

(***************************************************************************)
(* Python arithmetic of ml_services/crop_calculator.py.                    *)
(*                                                                         *)
(* `/` and `*` on the image sizes, the aspect ratio and the literals 0.15, *)
(* 0.1, 0.9, 0.2, 0.05 are float operations: binary64, 53 significant      *)
(* bits, each result rounded to nearest with ties to even.  A float is     *)
(* held here as its sign and its magnitude counted in units of             *)
(* 2^-FracBits, the magnitude a list of limbs below LimbBase, lowest limb  *)
(* first and no zero limb at the top.  Every float between 2^-6 and 2^16   *)
(* in magnitude is such a number, and these are the ones the crop          *)
(* calculator meets on the images and ratios of this model.                *)
(***************************************************************************)
LimbBits == 15
LimbBase == 2^LimbBits
FracLimbs == 4
FracBits == FracLimbs * LimbBits
MantissaBits == 53

Max2(a, b) == IF a >= b THEN a ELSE b
Min2(a, b) == IF a <= b THEN a ELSE b

\* Limb k of a natural number, zero above its top limb.
Limb(a, k) == IF k <= Len(a) THEN a[k] ELSE 0

RECURSIVE BigNorm(_)
BigNorm(a) ==
    IF a = <<>> THEN a
    ELSE IF a[Len(a)] = 0 THEN BigNorm(SubSeq(a, 1, Len(a) - 1)) ELSE a

RECURSIVE BigFromInt(_)
BigFromInt(n) ==
    IF n = 0 THEN <<>> ELSE <<n % LimbBase>> \o BigFromInt(n \div LimbBase)

RECURSIVE BigToInt(_)
BigToInt(a) == IF a = <<>> THEN 0 ELSE a[1] + LimbBase * BigToInt(Tail(a))

\* -1, 0, 1 as a is below, equal to, above b; decided from limb k down.
RECURSIVE BigCmpFrom(_, _, _)
BigCmpFrom(a, b, k) ==
    IF k = 0 THEN 0
    ELSE IF Limb(a, k) < Limb(b, k) THEN -1
    ELSE IF Limb(a, k) > Limb(b, k) THEN 1
    ELSE BigCmpFrom(a, b, k - 1)

BigCmp(a, b) == BigCmpFrom(a, b, Max2(Len(a), Len(b)))

RECURSIVE BigAddFrom(_, _, _, _)
BigAddFrom(a, b, k, carry) ==
    IF k > Max2(Len(a), Len(b)) THEN (IF carry = 0 THEN <<>> ELSE <<carry>>)
    ELSE LET t == Limb(a, k) + Limb(b, k) + carry
         IN  <<t % LimbBase>> \o BigAddFrom(a, b, k + 1, t \div LimbBase)

BigAdd(a, b) == BigAddFrom(a, b, 1, 0)

\* a - b for a >= b.
RECURSIVE BigSubFrom(_, _, _, _)
BigSubFrom(a, b, k, borrow) ==
    IF k > Len(a) THEN <<>>
    ELSE LET t == a[k] - Limb(b, k) - borrow
         IN  IF t < 0 THEN <<t + LimbBase>> \o BigSubFrom(a, b, k + 1, 1)
             ELSE <<t>> \o BigSubFrom(a, b, k + 1, 0)

BigSub(a, b) == BigNorm(BigSubFrom(a, b, 1, 0))

\* a * n + carry for 0 < n < LimbBase.
RECURSIVE BigMulSmallFrom(_, _, _, _)
BigMulSmallFrom(a, n, k, carry) ==
    IF k > Len(a) THEN (IF carry = 0 THEN <<>> ELSE <<carry>>)
    ELSE LET t == a[k] * n + carry
         IN  <<t % LimbBase>> \o BigMulSmallFrom(a, n, k + 1, t \div LimbBase)

BigMulSmall(a, n) == IF n = 0 THEN <<>> ELSE BigMulSmallFrom(a, n, 1, 0)

\* a * LimbBase^n.
BigShiftLimbs(a, n) == IF a = <<>> THEN a ELSE [k \in 1..n |-> 0] \o a

RECURSIVE BigMul(_, _)
BigMul(a, b) ==
    IF b = <<>> THEN <<>>
    ELSE BigAdd(BigMulSmall(a, Head(b)), BigShiftLimbs(BigMul(a, Tail(b)), 1))

RECURSIVE IntBitLen(_)
IntBitLen(n) == IF n = 0 THEN 0 ELSE 1 + IntBitLen(n \div 2)

BigBitLen(a) ==
    IF a = <<>> THEN 0 ELSE LimbBits * (Len(a) - 1) + IntBitLen(a[Len(a)])

\* Bit k of a, the lowest bit being bit 0.
BigBit(a, k) == (Limb(a, k \div LimbBits + 1) \div 2^(k % LimbBits)) % 2

\* The k lowest bits of a are all zero.
BigLowZero(a, k) ==
    /\ \A j \in 1..(k \div LimbBits) : Limb(a, j) = 0
    /\ Limb(a, k \div LimbBits + 1) % 2^(k % LimbBits) = 0

\* a with its k lowest bits cleared, for k below the bit length of a.
BigClearLow(a, k) ==
    [j \in 1..Len(a) |->
        IF j <= k \div LimbBits THEN 0
        ELSE IF j = k \div LimbBits + 1 THEN a[j] - (a[j] % 2^(k % LimbBits))
        ELSE a[j]]

BigPow2(k) ==
    [j \in 1..(k \div LimbBits + 1) |->
        IF j = k \div LimbBits + 1 THEN 2^(k % LimbBits) ELSE 0]

\* Long division of a by d, one bit of a at a time from the top.  r is the
\* remainder of the bits of a above bit hi; the bits hi-1..lo are taken in
\* and their quotient bits collected in q.
RECURSIVE BigDivModBits(_, _, _, _, _, _)
BigDivModBits(a, d, hi, lo, q, r) ==
    IF hi = lo THEN [q |-> q, r |-> r]
    ELSE LET r2 == BigMulSmallFrom(r, 2, 1, BigBit(a, hi - 1))
         IN  IF BigCmp(r2, d) >= 0
             THEN BigDivModBits(a, d, hi - 1, lo, 2 * q + 1, BigSub(r2, d))
             ELSE BigDivModBits(a, d, hi - 1, lo, 2 * q, r2)

\* The same, limb k of a and the limbs below it taken in; q holds the
\* quotient limbs of the limbs above.
RECURSIVE BigDivModFrom(_, _, _, _, _)
BigDivModFrom(a, d, k, q, r) ==
    IF k = 0 THEN [q |-> BigNorm(q), r |-> r]
    ELSE LET st == BigDivModBits(a, d, k * LimbBits, (k - 1) * LimbBits, 0, r)
         IN  BigDivModFrom(a, d, k - 1, <<st.q>> \o q, st.r)

BigDivMod(a, d) == BigDivModFrom(a, d, Len(a), <<>>, <<>>)

\* Short division of a by n for 0 < n < 2 * LimbBase, limb k of a and the
\* limbs below it taken in with r the remainder of the limbs above.
RECURSIVE BigDivSmallFrom(_, _, _, _)
BigDivSmallFrom(a, n, k, r) ==
    IF k = 0 THEN [q |-> <<>>, r |-> BigFromInt(r)]
    ELSE LET t == r * LimbBase + a[k]
             rest == BigDivSmallFrom(a, n, k - 1, t % n)
         IN  [q |-> rest.q \o <<t \div n>>, r |-> rest.r]

BigDivSmall(a, n) ==
    LET d == BigDivSmallFrom(a, n, Len(a), 0) IN [q |-> BigNorm(d.q), r |-> d.r]

\* The magnitude a, followed by nonzero lower bits when sticky, rounded to
\* MantissaBits significant bits: to nearest, ties to the even neighbour.
RoundNearestEven(a, sticky) ==
    LET s == BigBitLen(a) - MantissaBits
    IN  IF s <= 0 THEN a
        ELSE LET up == /\ BigBit(a, s - 1) = 1
                       /\ (sticky \/ ~BigLowZero(a, s - 1) \/ BigBit(a, s) = 1)
                 down == BigClearLow(a, s)
             IN  IF up THEN BigAdd(down, BigPow2(s)) ELSE down

\* float(n) for an int n.
float(n) ==
    [neg |-> n < 0,
     mag |-> BigShiftLimbs(BigFromInt(IF n < 0 THEN -n ELSE n), FracLimbs)]

FloatNeg(x) == [neg |-> ~x.neg /\ x.mag # <<>>, mag |-> x.mag]

\* x * y.
FloatMul(x, y) ==
    LET p == RoundNearestEven(BigMul(x.mag, y.mag), FALSE)
        m == SubSeq(p, FracLimbs + 1, Len(p))
    IN  [neg |-> x.neg # y.neg /\ m # <<>>, mag |-> m]

\* x / y.
FloatDiv(x, y) ==
    LET whole == /\ Len(y.mag) = FracLimbs + 1
                 /\ \A k \in 1..FracLimbs : y.mag[k] = 0
        d == IF whole THEN BigDivSmall(x.mag, y.mag[FracLimbs + 1])
             ELSE BigDivMod(BigShiftLimbs(x.mag, FracLimbs), y.mag)
        m == RoundNearestEven(d.q, d.r # <<>>)
    IN  [neg |-> x.neg # y.neg /\ m # <<>>, mag |-> m]

\* x + y.
FloatAdd(x, y) ==
    IF x.neg = y.neg
    THEN [neg |-> x.neg, mag |-> RoundNearestEven(BigAdd(x.mag, y.mag), FALSE)]
    ELSE LET c == BigCmp(x.mag, y.mag)
         IN  IF c = 0 THEN [neg |-> FALSE, mag |-> <<>>]
             ELSE IF c > 0
             THEN [neg |-> x.neg,
                   mag |-> RoundNearestEven(BigSub(x.mag, y.mag), FALSE)]
             ELSE [neg |-> y.neg,
                   mag |-> RoundNearestEven(BigSub(y.mag, x.mag), FALSE)]

\* x - y.
FloatSub(x, y) == FloatAdd(x, FloatNeg(y))

\* x < y.
FloatLess(x, y) ==
    IF x.neg # y.neg THEN x.neg
    ELSE IF x.neg THEN BigCmp(x.mag, y.mag) > 0
    ELSE BigCmp(x.mag, y.mag) < 0

\* max(x, y) and min(x, y): the first argument unless the second is beyond it.
FloatMax(x, y) == IF FloatLess(x, y) THEN y ELSE x
FloatMin(x, y) == IF FloatLess(y, x) THEN y ELSE x

\* int(x): the fraction is dropped, towards zero.
int(x) ==
    LET n == BigToInt(SubSeq(x.mag, FracLimbs + 1, Len(x.mag)))
    IN  IF x.neg THEN -n ELSE n

(***************************************************************************)
(* ml_services/crop_calculator.py: calculate_smart_crop.                   *)
(***************************************************************************)
\* The default of the headroom_ratio parameter and the literals of the body.
headroom_ratio == FloatDiv(float(15), float(100))
buffer_ratio == FloatDiv(float(1), float(10))
bottom_ratio == FloatDiv(float(9), float(10))
head_target_ratio == FloatDiv(float(20), float(100))
min_headroom_ratio == FloatDiv(float(5), float(100))
fallback_ratio == FloatDiv(float(1), float(10))
saliency_confidence == FloatDiv(float(3), float(10))

\* max(detections, key=quality_score * confidence): the first detection of
\* the list whose key no other detection exceeds.
DetectionKey(d) == FloatMul(d.quality_score, d.confidence)

BestOf(detections) ==
    LET best == CHOOSE k \in 1..Len(detections) :
                    /\ \A j \in 1..Len(detections) :
                          ~FloatLess(DetectionKey(detections[k]),
                                     DetectionKey(detections[j]))
                    /\ \A j \in 1..(k - 1) :
                          FloatLess(DetectionKey(detections[j]),
                                    DetectionKey(detections[k]))
    IN  detections[best]

SetMin(S) == CHOOSE m \in S : \A n \in S : m <= n
SetMax(S) == CHOOSE m \in S : \A n \in S : m >= n

\* Lines 39-55: the size of the crop.
CropSize(aspect_ratio, image_width, image_height) ==
    LET target_aspect == FloatDiv(float(aspect_ratio[1]), float(aspect_ratio[2]))
    IN  IF FloatLess(target_aspect,
                     FloatDiv(float(image_width), float(image_height)))
        THEN [crop_width |->
                  Min2(int(FloatMul(float(image_height), target_aspect)),
                       image_width),
              crop_height |-> image_height]
        ELSE [crop_width |-> image_width,
              crop_height |->
                  Min2(int(FloatDiv(float(image_width), target_aspect)),
                       image_height)]

\* Lines 108-115: the ideal row if it keeps the face visible, the
\* constrained row otherwise.
FaceCropY(ideal_crop_y_int, min_crop_y_for_face, max_crop_y_for_face) ==
    IF FloatLess(float(ideal_crop_y_int), min_crop_y_for_face)
    THEN int(min_crop_y_for_face)
    ELSE IF FloatLess(max_crop_y_for_face, float(ideal_crop_y_int))
    THEN int(max_crop_y_for_face)
    ELSE ideal_crop_y_int

\* Lines 62-132: the crop around best_face, whose headroom is given.
FaceCropAround(best_face, headroom, faces, image_width, image_height, crop_width, crop_height) ==
    LET face_box == best_face.box
        face_center_x ==
            FloatAdd(float(face_box.x), FloatDiv(float(face_box.width), float(2)))
        face_center_y ==
            FloatAdd(float(face_box.y), FloatDiv(float(face_box.height), float(2)))
        adjusted_center_y == FloatSub(face_center_y, float(headroom))
        min_x == SetMin({faces[k].box.x : k \in 1..Len(faces)})
        max_x == SetMax({faces[k].box.x + faces[k].box.width : k \in 1..Len(faces)})
        min_y == SetMin({faces[k].box.y : k \in 1..Len(faces)})
        max_y == SetMax({faces[k].box.y + faces[k].box.height : k \in 1..Len(faces)})
        group_center_x == FloatDiv(float(min_x + max_x), float(2))
        group_center_y ==
            FloatSub(FloatDiv(float(min_y + max_y), float(2)), float(headroom))
        ideal_crop_x ==
            FloatSub(IF Len(faces) > 1 THEN group_center_x ELSE face_center_x,
                     FloatDiv(float(crop_width), float(2)))
        ideal_crop_y ==
            FloatSub(IF Len(faces) > 1 THEN group_center_y ELSE adjusted_center_y,
                     FloatDiv(float(crop_height), float(2)))
        crop_x == Max2(0, Min2(image_width - crop_width, int(ideal_crop_x)))
        face_top_with_headroom == face_box.y - headroom
        min_crop_y_for_face ==
            FloatMax(float(0),
                     FloatSub(float(face_top_with_headroom),
                              FloatMul(float(crop_height), buffer_ratio)))
        face_bottom == face_box.y + face_box.height
        max_crop_y_for_face ==
            FloatMin(float(image_height - crop_height),
                     FloatSub(float(face_bottom),
                              FloatMul(float(crop_height), bottom_ratio)))
        crop_y == FaceCropY(int(ideal_crop_y), min_crop_y_for_face,
                            max_crop_y_for_face)
    IN  [crop_box |-> [x |-> crop_x,
                       y |-> Max2(0, Min2(image_height - crop_height, crop_y)),
                       width |-> crop_width,
                       height |-> crop_height],
         confidence |-> FloatMul(best_face.confidence, best_face.quality_score),
         method |-> "face"]

\* Line 69 (and, with the same value, line 90): the headroom above a face.
Headroom(face) == int(FloatMul(float(face.box.height), headroom_ratio))

\* Lines 60-132: strategy 1, the faces.
FaceCropOf(best_face, faces, image_width, image_height, crop_width, crop_height) ==
    FaceCropAround(best_face, Headroom(best_face), faces,
                   image_width, image_height, crop_width, crop_height)

FaceCrop(faces, image_width, image_height, crop_width, crop_height) ==
    FaceCropOf(BestOf(faces), faces,
               image_width, image_height, crop_width, crop_height)

\* A person strategy that leaves out every clamp to the image.
PersonCropUnclamped(persons, image_width, image_height, crop_width, crop_height) ==
    LET person_box == BestOf(persons).box
        ideal_crop_x ==
            FloatSub(FloatAdd(float(person_box.x),
                              FloatDiv(float(person_box.width), float(2))),
                     FloatDiv(float(crop_width), float(2)))
    IN  [crop_box |-> [x |-> int(ideal_crop_x),
                       y |-> person_box.y
                             - int(FloatMul(float(crop_height), head_target_ratio)),
                       width |-> crop_width, height |-> crop_height],
         confidence |-> FloatMul(BestOf(persons).confidence,
                                 BestOf(persons).quality_score),
         method |-> "person"]

\* A person strategy that centres the crop vertically on the image.
PersonCropCentred(persons, image_width, image_height, crop_width, crop_height) ==
    LET person_box == BestOf(persons).box
        ideal_crop_x ==
            FloatSub(FloatAdd(float(person_box.x),
                              FloatDiv(float(person_box.width), float(2))),
                     FloatDiv(float(crop_width), float(2)))
    IN  [crop_box |-> [x |-> Max2(0, Min2(image_width - crop_width,
                                          int(ideal_crop_x))),
                       y |-> (image_height - crop_height) \div 2,
                       width |-> crop_width, height |-> crop_height],
         confidence |-> FloatMul(BestOf(persons).confidence,
                                 BestOf(persons).quality_score),
         method |-> "person"]

\* Lines 164-176: the row once the person's top is made to lie in the crop.
PersonCropY(person_top, clamped, image_height, crop_height) ==
    LET moved_up ==
            IF clamped >= person_top
            THEN Min2(Max2(0, person_top
                              - int(FloatMul(float(crop_height), min_headroom_ratio))),
                      image_height - crop_height)
            ELSE clamped
    IN  IF ~(moved_up <= person_top /\ person_top <= moved_up + crop_height)
        THEN Min2(Max2(0, person_top
                          - int(FloatMul(float(crop_height), fallback_ratio))),
                  image_height - crop_height)
        ELSE moved_up

\* Lines 137-190: the crop around best_person.
PersonCropAround(best_person, image_width, image_height, crop_width, crop_height) ==
    LET person_box == best_person.box
        person_center_x ==
            FloatAdd(float(person_box.x),
                     FloatDiv(float(person_box.width), float(2)))
        ideal_crop_x ==
            FloatSub(person_center_x, FloatDiv(float(crop_width), float(2)))
        crop_x == Max2(0, Min2(image_width - crop_width, int(ideal_crop_x)))
        person_top == person_box.y
        head_target_y_in_crop == int(FloatMul(float(crop_height), head_target_ratio))
        ideal_crop_y == person_top - head_target_y_in_crop
        crop_y ==
            PersonCropY(person_top,
                        Max2(0, Min2(image_height - crop_height, ideal_crop_y)),
                        image_height, crop_height)
    IN  [crop_box |-> [x |-> crop_x, y |-> crop_y,
                       width |-> crop_width, height |-> crop_height],
         confidence |-> FloatMul(best_person.confidence, best_person.quality_score),
         method |-> "person"]

\* Lines 135-190: strategy 2, the persons.
PersonCrop(persons, image_width, image_height, crop_width, crop_height) ==
    PersonCropAround(BestOf(persons),
                     image_width, image_height, crop_width, crop_height)

\* Lines 192-206: strategy 3, the centre crop.
CenterCrop(image_width, image_height, crop_width, crop_height) ==
    [crop_box |-> [x |-> (image_width - crop_width) \div 2,
                   y |-> (image_height - crop_height) \div 2,
                   width |-> crop_width, height |-> crop_height],
     confidence |-> saliency_confidence,
     method |-> "saliency"]

\* A calculator that looks at the persons before the faces.
calculate_smart_crop_persons_first(aspect_ratio, faces, persons, image_width, image_height) ==
    LET size == CropSize(aspect_ratio, image_width, image_height)
    IN  IF persons # <<>>
        THEN PersonCrop(persons, image_width, image_height,
                        size.crop_width, size.crop_height)
        ELSE IF faces # <<>>
        THEN FaceCrop(faces, image_width, image_height,
                      size.crop_width, size.crop_height)
        ELSE CenterCrop(image_width, image_height,
                        size.crop_width, size.crop_height)

calculate_smart_crop(aspect_ratio, faces, persons, image_width, image_height) ==
    LET size == CropSize(aspect_ratio, image_width, image_height)
    IN  IF faces # <<>>
        THEN FaceCrop(faces, image_width, image_height,
                      size.crop_width, size.crop_height)
        ELSE IF persons # <<>>
        THEN PersonCrop(persons, image_width, image_height,
                        size.crop_width, size.crop_height)
        ELSE CenterCrop(image_width, image_height,
                        size.crop_width, size.crop_height)

(***************************************************************************)
(* calculate_smart_crop called on its own: every image up to MaxWidth by   *)
(* MaxHeight, the three ratios of the pipeline and two more, and up to     *)
(* MaxDetections detections placed on the image.                           *)
(***************************************************************************)
\* pipeline.py's ASPECT_RATIOS, and the ratios another caller may pass.
ASPECT_RATIOS == {<<4, 5>>, <<16, 9>>, <<1, 1>>}
AspectRatios == ASPECT_RATIOS \cup {<<9, 7>>}

\* A confidence or quality score of c tenths.
Score(c) == FloatDiv(float(c), float(10))

Detection(x, y, width, height, confidence, quality_score) ==
    [box |-> [x |-> x, y |-> y, width |-> width, height |-> height],
     confidence |-> Score(confidence),
     quality_score |-> Score(quality_score)]

\* Faces a detector may report on an image: one in the top left corner, one
\* a little below it and the best one in the bottom right corner.
FaceDetections(image_width, image_height) ==
    {Detection(0, 0, 1, 1, 10, 3),
     Detection(Min2(1, image_width - 1), Min2(2, image_height - 1), 1, 1, 5, 8),
     Detection(image_width - 1, image_height - 1, 1, 1, 9, 9)}

\* Persons a detector may report: one standing along the left edge, a
\* smaller one in the bottom right corner.
PersonDetections(image_width, image_height) ==
    {Detection(0, 0, 1, image_height, 9, 5),
     Detection(image_width - 1, image_height - 1, 1, 1, 5, 5)}

\* The lists of at most n elements of S.
RECURSIVE ListsUpTo(_, _)
ListsUpTo(S, n) ==
    IF n = 0 THEN {<<>>}
    ELSE LET shorter == ListsUpTo(S, n - 1)
         IN  shorter \cup {Append(l, e) : l \in shorter, e \in S}

CropCalls ==
    {[fn |-> "calculate_smart_crop", aspect_ratio |-> ar, faces |-> fs,
      persons |-> ps, image_width |-> w, image_height |-> h] :
        <<ar, w, h, fs, ps>> \in
            {t \in UNION {UNION {{ar} \X {w} \X {h}
                                   \X ListsUpTo(FaceDetections(w, h), MaxDetections)
                                   \X ListsUpTo(PersonDetections(w, h), MaxDetections) :
                                 ar \in AspectRatios} :
                          w \in 1..MaxWidth, h \in 1..MaxHeight} :
                Len(t[4]) + Len(t[5]) <= MaxDetections}}

CropInit ==
    /\ MainInit
    /\ checkpoint = Absent
    /\ call \in CropCalls
    /\ ret = None

CallSmartCrop ==
    /\ call # None
    /\ call.fn = "calculate_smart_crop"
    /\ ret = None
    /\ ret' = calculate_smart_crop(call.aspect_ratio, call.faces, call.persons,
                                   call.image_width, call.image_height)
    /\ UNCHANGED <<call, main_vars>>

CropSpec == CropInit /\ [][CallSmartCrop]_vars

(***************************************************************************)
(* Properties of calculate_smart_crop, read on the state after the call.   *)
(***************************************************************************)
\* The call of calculate_smart_crop has returned.
CropReturned == call # None /\ call.fn = "calculate_smart_crop" /\ ret # None

\* The rectangle b lies inside the rectangle c, both as {x, y, width, height}.
BoxInside(b, c) ==
    /\ c.x <= b.x /\ b.x + b.width <= c.x + c.width
    /\ c.y <= b.y /\ b.y + b.height <= c.y + c.height

\* The smallest rectangle around the boxes of a list of detections.
EnclosingBox(detections) ==
    LET ks == 1..Len(detections)
        left == SetMin({detections[k].box.x : k \in ks})
        top == SetMin({detections[k].box.y : k \in ks})
        right == SetMax({detections[k].box.x + detections[k].box.width : k \in ks})
        bottom == SetMax({detections[k].box.y + detections[k].box.height : k \in ks})
    IN  [x |-> left, y |-> top, width |-> right - left, height |-> bottom - top]

\* C12: under all three strategies the returned crop_box lies inside the
\* image: 0 <= x, 0 <= y, x + width <= image_width, y + height <= image_height.
C12_CropInsideImage ==
    CropReturned
        => /\ 0 <= ret.crop_box.x
           /\ 0 <= ret.crop_box.y
           /\ ret.crop_box.x + ret.crop_box.width <= call.image_width
           /\ ret.crop_box.y + ret.crop_box.height <= call.image_height

\* The person strategy returned a crop narrower than the image, held at the
\* image's right edge by the clamp.
C12_Witness ==
    /\ CropReturned
    /\ ret.method = "person"
    /\ ret.crop_box.width > 0
    /\ ret.crop_box.width < call.image_width
    /\ ret.crop_box.x = call.image_width - ret.crop_box.width

\* C13: whatever the strategy, the returned crop is the largest rectangle of
\* the ratio w:h that fits the image: its width is image_width and its height
\* floor(image_width*h/w), or its height is image_height and its width
\* floor(image_height*w/h), the derived side not exceeding the image.
C13_MaximalCrop ==
    CropReturned
        => LET w == call.aspect_ratio[1]
               h == call.aspect_ratio[2]
           IN  \/ /\ ret.crop_box.width = call.image_width
                  /\ ret.crop_box.height = (call.image_width * h) \div w
                  /\ ret.crop_box.height <= call.image_height
               \/ /\ ret.crop_box.height = call.image_height
                  /\ ret.crop_box.width = (call.image_height * w) \div h
                  /\ ret.crop_box.width <= call.image_width

\* C14: with at least one face, the bounding box of the best face lies
\* inside the returned crop, horizontally and vertically.
C14_BestFaceInsideCrop ==
    CropReturned /\ call.faces # <<>>
        => BoxInside(BestOf(call.faces).box, ret.crop_box)

\* C15: with no faces and at least one person, the top edge of the best
\* person lies between the top and the bottom of the returned crop.
C15_PersonTopInsideCrop ==
    CropReturned /\ call.faces = <<>> /\ call.persons # <<>>
        => LET person_top == BestOf(call.persons).box.y
           IN  /\ ret.crop_box.y <= person_top
               /\ person_top <= ret.crop_box.y + ret.crop_box.height

\* The best person stands at the bottom of an image taller than the crop,
\* and the crop was moved down to it.
C15_Witness ==
    /\ CropReturned
    /\ call.faces = <<>>
    /\ call.persons # <<>>
    /\ BestOf(call.persons).box.y = call.image_height - 1
    /\ ret.crop_box.height < call.image_height
    /\ ret.crop_box.y > 0

\* C16: with several faces whose enclosing box is no wider and no higher
\* than the crop, the returned crop contains that whole enclosing box.
C16_FaceGroupInsideCrop ==
    (/\ CropReturned
     /\ Len(call.faces) > 1
     /\ EnclosingBox(call.faces).width <= ret.crop_box.width
     /\ EnclosingBox(call.faces).height <= ret.crop_box.height)
        => BoxInside(EnclosingBox(call.faces), ret.crop_box)

\* C17: the method is "face" whenever there is a face, "person" exactly when
\* there is no face and there is a person, and "saliency" with confidence 0.3
\* exactly when there is neither.
C17_StrategyPriority ==
    CropReturned
        => /\ call.faces # <<>> => ret.method = "face"
           /\ ret.method = "person" <=> (call.faces = <<>> /\ call.persons # <<>>)
           /\ ret.method = "saliency" <=> (call.faces = <<>> /\ call.persons = <<>>)
           /\ ret.method = "saliency" => ret.confidence = Score(3)
           /\ ret.method \in {"face", "person", "saliency"}

\* A face and a person were both passed, and the face strategy answered.
C17_Witness ==
    /\ CropReturned
    /\ call.faces # <<>>
    /\ call.persons # <<>>
    /\ ret.method = "face"

(***************************************************************************)
(* ml_services/perceptual_hash.py: hamming_distance and are_similar.       *)
(* A hash string is held as the list of its hex digits; the empty list is  *)
(* the empty string compute_hashes returns when hashing fails.             *)
(***************************************************************************)
HexDigits == 0..15

\* What compute_hashes can return for phash or dhash.
HashStrings == {<<>>} \cup [1..HashLen -> HexDigits]

\* int(hash, 16): ValueError on the empty string.
RECURSIVE HexValue(_)
HexValue(hash) ==
    IF hash = <<>> THEN 0
    ELSE 16 * HexValue(SubSeq(hash, 1, Len(hash) - 1)) + hash[Len(hash)]

ValueError == [raised |-> "ValueError"]
int16(hash) == IF hash = <<>> THEN ValueError ELSE [value |-> HexValue(hash)]
Raised(r) == "raised" \in DOMAIN r

\* int1 ^ int2
RECURSIVE Xor(_, _)
Xor(a, b) ==
    IF a = 0 /\ b = 0 THEN 0
    ELSE ((a + b) % 2) + 2 * Xor(a \div 2, b \div 2)

\* int1 | int2
RECURSIVE Or(_, _)
Or(a, b) ==
    IF a = 0 /\ b = 0 THEN 0
    ELSE (IF a % 2 = 1 \/ b % 2 = 1 THEN 1 ELSE 0) + 2 * Or(a \div 2, b \div 2)

\* bin(n).count("1")
RECURSIVE CountOnes(_)
CountOnes(n) == IF n = 0 THEN 0 ELSE (n % 2) + CountOnes(n \div 2)

\* The distance returned from the except handler.
ErrorDistance == 999

\* A distance that counts the bits set in either hash.
hamming_distance_or(hash1, hash2) ==
    IF Raised(int16(hash1)) \/ Raised(int16(hash2)) THEN ErrorDistance
    ELSE CountOnes(Or(int16(hash1).value, int16(hash2).value))

hamming_distance(hash1, hash2) ==
    IF Raised(int16(hash1)) \/ Raised(int16(hash2)) THEN ErrorDistance
    ELSE CountOnes(Xor(int16(hash1).value, int16(hash2).value))

are_similar(hash1, hash2, threshold) ==
    hamming_distance(hash1, hash2) <= threshold

\* The two functions called on their own, on every pair of hash strings.
HashInit ==
    /\ MainInit
    /\ checkpoint = Absent
    /\ \E hash1 \in HashStrings, hash2 \in HashStrings :
           \/ call = [fn |-> "hamming_distance", hash1 |-> hash1, hash2 |-> hash2]
           \/ \E threshold \in 0..MaxThreshold :
                  call = [fn |-> "are_similar", hash1 |-> hash1, hash2 |-> hash2,
                          threshold |-> threshold]
    /\ ret = None

CallHammingDistance ==
    /\ call # None
    /\ call.fn = "hamming_distance"
    /\ ret = None
    /\ ret' = [distance |-> hamming_distance(call.hash1, call.hash2)]
    /\ UNCHANGED <<call, main_vars>>

CallAreSimilar ==
    /\ call # None
    /\ call.fn = "are_similar"
    /\ ret = None
    /\ ret' = [similar |-> are_similar(call.hash1, call.hash2, call.threshold)]
    /\ UNCHANGED <<call, main_vars>>

HashSpec == HashInit /\ [][CallHammingDistance \/ CallAreSimilar]_vars

\* C18: for all hash strings a, b the hasher can return, the distance from a
\* to b is the distance from b to a, the distance from a to a is 0, and
\* are_similar(a, a, t) is true for every threshold t >= 0.
C18_HammingIdentity ==
    ret # None
        => /\ call.fn = "hamming_distance"
                => /\ ret.distance = hamming_distance(call.hash2, call.hash1)
                   /\ call.hash1 = call.hash2 => ret.distance = 0
           /\ call.fn = "are_similar" /\ call.hash1 = call.hash2 => ret.similar

\* C18, amended: the distance is symmetric for all hash strings; for a hash
\* string that is not empty the distance to itself is 0 and are_similar with
\* itself is true for every threshold; the distance from or to the empty
\* string is 999, also to itself.
C18_HammingIdentityOfHashes ==
    ret # None
        => /\ call.fn = "hamming_distance"
                => /\ ret.distance = hamming_distance(call.hash2, call.hash1)
                   /\ (call.hash1 = call.hash2 /\ call.hash1 # <<>>)
                        => ret.distance = 0
                   /\ (call.hash1 = <<>> \/ call.hash2 = <<>>)
                        => ret.distance = ErrorDistance
           /\ (call.fn = "are_similar" /\ call.hash1 = call.hash2
                                       /\ call.hash1 # <<>>)
                => ret.similar

\* The distance of a hash with a bit set to itself was returned.
C18_Witness ==
    /\ call # None
    /\ ret # None
    /\ call.fn = "hamming_distance"
    /\ call.hash1 = call.hash2
    /\ call.hash1 # <<>>
    /\ HexValue(call.hash1) > 0
    /\ ret.distance = 0

(***************************************************************************)
(* pipeline.py: cluster_near_duplicates.                                   *)
(***************************************************************************)
\* The inner loop from index j on: seed is photo_results[i], st holds the
\* cluster being built and the processed set.  The variant below joins a
\* photo only when both hashes are within the threshold.
RECURSIVE ScanLaterBothHashes(_, _, _, _, _)
ScanLaterBothHashes(photo_results, seed, j, st, hash_threshold) ==
    IF j > Len(photo_results) THEN st
    ELSE LET photo2 == photo_results[j]
             phash_dist == hamming_distance(seed.hashes.phash, photo2.hashes.phash)
             dhash_dist == hamming_distance(seed.hashes.dhash, photo2.hashes.dhash)
         IN  IF photo2.filename \in st.processed
             THEN ScanLaterBothHashes(photo_results, seed, j + 1, st, hash_threshold)
             ELSE IF phash_dist <= hash_threshold /\ dhash_dist <= hash_threshold
             THEN ScanLaterBothHashes(photo_results, seed, j + 1,
                      [cluster |-> Append(st.cluster, photo2.filename),
                       processed |-> st.processed \cup {photo2.filename}],
                      hash_threshold)
             ELSE ScanLaterBothHashes(photo_results, seed, j + 1, st, hash_threshold)

\* for j, photo2 in enumerate(photo_results[i + 1:], start=i + 1)
RECURSIVE ScanLater(_, _, _, _, _)
ScanLater(photo_results, seed, j, st, hash_threshold) ==
    IF j > Len(photo_results) THEN st
    ELSE LET photo2 == photo_results[j]
             phash_dist == hamming_distance(seed.hashes.phash, photo2.hashes.phash)
             dhash_dist == hamming_distance(seed.hashes.dhash, photo2.hashes.dhash)
         IN  IF photo2.filename \in st.processed
             THEN ScanLater(photo_results, seed, j + 1, st, hash_threshold)
             ELSE IF phash_dist <= hash_threshold \/ dhash_dist <= hash_threshold
             THEN ScanLater(photo_results, seed, j + 1,
                      [cluster |-> Append(st.cluster, photo2.filename),
                       processed |-> st.processed \cup {photo2.filename}],
                      hash_threshold)
             ELSE ScanLater(photo_results, seed, j + 1, st, hash_threshold)

\* for i, photo1 in enumerate(photo_results), from index n on (i in the source).
RECURSIVE SeedLoop(_, _, _, _, _)
SeedLoop(photo_results, n, clusters, processed, hash_threshold) ==
    IF n > Len(photo_results) THEN clusters
    ELSE LET photo1 == photo_results[n]
             st == ScanLater(photo_results, photo1, n + 1,
                             [cluster |-> <<photo1.filename>>,
                              processed |-> processed \cup {photo1.filename}],
                             hash_threshold)
         IN  IF photo1.filename \in processed
             THEN SeedLoop(photo_results, n + 1, clusters, processed, hash_threshold)
             ELSE SeedLoop(photo_results, n + 1,
                           IF Len(st.cluster) > 1 THEN Append(clusters, st.cluster)
                           ELSE clusters,
                           st.processed, hash_threshold)

cluster_near_duplicates(photo_results, hash_threshold) ==
    SeedLoop(photo_results, 1, <<>>, {}, hash_threshold)

\* The filename of the k-th record: filenames are unique.
FileName(k) == 100 + k

\* A hash string whose last digit is d, the digits before it zero.
SampleHash(d) == [k \in 1..HashLen |-> IF k = HashLen THEN d ELSE 0]

\* The hashes of the records: the empty string of a failed hashing, and
\* hashes 0, 1 and 2 bits apart.
SampleHashes == {<<>>, SampleHash(0), SampleHash(1), SampleHash(3)}

\* The lists of n records with filenames FileName(1..n).
HashedPhotos(n) ==
    [1..n -> [phash : SampleHashes, dhash : SampleHashes]]

DupCalls ==
    {[fn |-> "cluster_near_duplicates",
      photo_results |-> [k \in 1..n |-> [filename |-> FileName(k), hashes |-> hs[k]]],
      hash_threshold |-> t] :
        <<n, hs, t>> \in
            UNION {{n} \X HashedPhotos(n) \X (0..MaxThreshold) : n \in 0..MaxPhotos}}

DupInit ==
    /\ MainInit
    /\ checkpoint = Absent
    /\ call \in DupCalls
    /\ ret = None

CallClusterNearDuplicates ==
    /\ call # None
    /\ call.fn = "cluster_near_duplicates"
    /\ ret = None
    /\ ret' = [clusters |->
                  cluster_near_duplicates(call.photo_results, call.hash_threshold)]
    /\ UNCHANGED <<call, main_vars>>

DupSpec == DupInit /\ [][CallClusterNearDuplicates]_vars

\* Record b is within the threshold of record a by phash or by dhash.
WithinThreshold(a, b, t) ==
    \/ hamming_distance(a.hashes.phash, b.hashes.phash) <= t
    \/ hamming_distance(a.hashes.dhash, b.hashes.dhash) <= t

\* The clusters of the greedy seed procedure.  A record is a seed when it is
\* within the threshold of no earlier seed; any other record belongs to the
\* earliest seed it is within the threshold of.
GreedySeedClusters(rs, t) ==
    LET n == Len(rs)
        seed[k \in 1..n] ==
            \A s \in 1..(k - 1) : seed[s] => ~WithinThreshold(rs[s], rs[k], t)
        SeedOf(k) ==
            IF seed[k] THEN k
            ELSE SetMin({s \in 1..(k - 1) : seed[s] /\ WithinThreshold(rs[s], rs[k], t)})
        Members(s) == SelectSeq([k \in 1..n |-> k], LAMBDA k : SeedOf(k) = s)
        Names(ks) == [j \in 1..Len(ks) |-> rs[ks[j]].filename]
        kept == SelectSeq([k \in 1..n |-> k],
                          LAMBDA k : seed[k] /\ Len(Members(k)) > 1)
    IN  [c \in 1..Len(kept) |-> Names(Members(kept[c]))]

\* C19: for every sequence of records with unique filenames,
\* cluster_near_duplicates returns exactly the clusters of the greedy seed
\* procedure: a seed, then in input order every later record not yet in a
\* cluster that is within the threshold of the seed by phash or by dhash; a
\* record near a member but not near the seed does not join; clusters of
\* the seed alone are left out.
C19_GreedySeedClusters ==
    (call # None /\ call.fn = "cluster_near_duplicates" /\ ret # None)
        => ret.clusters = GreedySeedClusters(call.photo_results, call.hash_threshold)

\* The third record is near the second but not near the seed, and stays out
\* of the one cluster returned.
C19_Witness ==
    /\ call # None
    /\ call.fn = "cluster_near_duplicates"
    /\ ret # None
    /\ Len(call.photo_results) = 3
    /\ WithinThreshold(call.photo_results[1], call.photo_results[2], call.hash_threshold)
    /\ WithinThreshold(call.photo_results[2], call.photo_results[3], call.hash_threshold)
    /\ ~WithinThreshold(call.photo_results[1], call.photo_results[3], call.hash_threshold)
    /\ ret.clusters = <<<<FileName(1), FileName(2)>>>>

(***************************************************************************)
(* Scene clustering: cluster_scenes of pipeline.py.  An embedding is a     *)
(* list of numbers, empty when get_image_embedding failed; similarity      *)
(* thresholds and eps are counted in hundredths.  DBSCAN and its cosine    *)
(* metric are scikit-learn's: a sample's neighbourhood holds every sample  *)
(* at cosine distance <= eps, itself included, a sample is a core sample   *)
(* when its neighbourhood holds at least min_samples samples, and labels   *)
(* are handed out by a depth-first walk from each unlabelled core sample   *)
(* in index order.                                                         *)
(***************************************************************************)

min_samples == 2

Noise == 0 - 1

RECURSIVE DotFrom(_, _, _)
DotFrom(u, v, k) ==
    IF k > Len(u) THEN 0 ELSE u[k] * v[k] + DotFrom(u, v, k + 1)

Dot(u, v) == DotFrom(u, v, 1)

\* Cosine distance 1 - u.v / (|u| |v|) is at most eps hundredths, for
\* 0 < eps < 100 and embeddings that are not all zeros; decided exactly.
CosineWithin(u, v, eps) ==
    /\ Dot(u, v) > 0
    /\ 100 * 100 * Dot(u, v) * Dot(u, v)
           >= (100 - eps) * (100 - eps) * Dot(u, u) * Dot(v, v)

Neighborhoods(X, eps) ==
    [p \in 1..Len(X) |-> {q \in 1..Len(X) : CosineWithin(X[p], X[q], eps)}]

\* A core sample with a neighbourhood of more than min_samples samples.
CoreSamplesAbove(neighborhoods) ==
    [p \in DOMAIN neighborhoods |-> Cardinality(neighborhoods[p]) > min_samples]

CoreSamples(neighborhoods) ==
    [p \in DOMAIN neighborhoods |-> Cardinality(neighborhoods[p]) >= min_samples]

\* One cluster: label p if it has no label, push the unlabelled neighbours
\* of a core sample, go on with the top of the stack until it is empty.
RECURSIVE Expand(_, _, _, _, _, _)
Expand(neighborhoods, is_core, labels, p, stack, label_num) ==
    LET fresh_p == labels[p] = Noise
        labelled == IF fresh_p THEN [labels EXCEPT ![p] = label_num] ELSE labels
        pushed ==
            IF fresh_p /\ is_core[p]
            THEN stack \o SelectSeq([v \in DOMAIN labels |-> v],
                                    LAMBDA v : /\ v \in neighborhoods[p]
                                               /\ labelled[v] = Noise)
            ELSE stack
    IN  IF pushed = <<>>
        THEN labelled
        ELSE Expand(neighborhoods, is_core, labelled, pushed[Len(pushed)],
                    SubSeq(pushed, 1, Len(pushed) - 1), label_num)

RECURSIVE dbscan_inner(_, _, _, _, _)
dbscan_inner(neighborhoods, is_core, labels, p, label_num) ==
    IF p > Len(labels)
    THEN labels
    ELSE IF labels[p] # Noise \/ ~is_core[p]
         THEN dbscan_inner(neighborhoods, is_core, labels, p + 1, label_num)
         ELSE dbscan_inner(neighborhoods, is_core,
                           Expand(neighborhoods, is_core, labels, p, <<>>, label_num),
                           p + 1, label_num + 1)

fit_predict(X, eps) ==
    LET neighborhoods == Neighborhoods(X, eps)
    IN  dbscan_inner(neighborhoods, CoreSamples(neighborhoods),
                     [p \in 1..Len(X) |-> Noise], 1, 0)

\* The dictionary clusters, as the list of its items in insertion order.
RECURSIVE GroupByLabel(_, _, _, _)
GroupByLabel(labels, valid_photos, idx, clusters) ==
    IF idx > Len(labels)
    THEN clusters
    ELSE LET label == labels[idx]
             at == {k \in 1..Len(clusters) : clusters[k].label = label}
             with_key ==
                 IF at = {}
                 THEN Append(clusters, [label |-> label, filenames |-> <<>>])
                 ELSE clusters
             k == CHOOSE k \in 1..Len(with_key) : with_key[k].label = label
         IN  IF label # Noise
             THEN GroupByLabel(labels, valid_photos, idx + 1,
                      [with_key EXCEPT ![k].filenames =
                          Append(@, valid_photos[idx].filename)])
             ELSE GroupByLabel(labels, valid_photos, idx + 1, clusters)

cluster_scenes(photo_results, similarity_threshold) ==
    LET valid_photos == SelectSeq(photo_results, LAMBDA p : p.image_embedding # <<>>)
        embeddings == [k \in 1..Len(valid_photos) |-> valid_photos[k].image_embedding]
        eps == 100 - similarity_threshold
        labels == fit_predict(embeddings, eps)
        clusters == GroupByLabel(labels, valid_photos, 1, <<>>)
    IN  IF Len(valid_photos) < 2
        THEN <<>>
        ELSE [k \in 1..Len(clusters) |-> clusters[k].filenames]

(***************************************************************************)
(* The calls of cluster_scenes that are explored.  The embeddings are      *)
(* directions in the plane, a quarter turn apart at most, whose cosine     *)
(* similarities (0.97 and 0.86 between neighbours, 0.71 and less further   *)
(* apart) lie away from both thresholds, so that rounding decides nothing. *)
(***************************************************************************)

SampleEmbeddings == {<<>>, <<1, 0>>, <<4, 1>>, <<1, 1>>, <<1, 4>>, <<0, 1>>}

SimilarityThresholds == {85, 60}

SceneCalls ==
    {[fn |-> "cluster_scenes",
      photo_results |-> [k \in 1..n |-> [filename |-> FileName(k),
                                         image_embedding |-> es[k]]],
      similarity_threshold |-> t] :
        <<n, es, t>> \in
            UNION {{n} \X [1..n -> SampleEmbeddings] \X SimilarityThresholds :
                       n \in 0..MaxScenePhotos}}

SceneInit ==
    /\ MainInit
    /\ checkpoint = Absent
    /\ call \in SceneCalls
    /\ ret = None

CallClusterScenes ==
    /\ call # None
    /\ call.fn = "cluster_scenes"
    /\ ret = None
    /\ ret' = [clusters |->
                  cluster_scenes(call.photo_results, call.similarity_threshold)]
    /\ UNCHANGED <<call, main_vars>>

SceneSpec == SceneInit /\ [][CallClusterScenes]_vars

\* The records of the call that have a non-empty embedding, by position.
ValidRecords == {k \in DOMAIN call.photo_results :
                     call.photo_results[k].image_embedding # <<>>}

\* Records a and b of the call are within eps of each other.
WithinEps(a, b) ==
    CosineWithin(call.photo_results[a].image_embedding,
                 call.photo_results[b].image_embedding,
                 100 - call.similarity_threshold)

\* The returned clusters that hold the filename of record k.
ClustersOf(k) ==
    {c \in DOMAIN ret.clusters :
        \E m \in DOMAIN ret.clusters[c] :
            ret.clusters[c][m] = call.photo_results[k].filename}

SceneReturned == call # None /\ call.fn = "cluster_scenes" /\ ret # None

\* C20: cluster_scenes puts no record with an empty embedding in a cluster,
\* returns no clusters when fewer than two records have an embedding, and
\* otherwise puts any two records within eps of each other in one cluster and
\* a record with no other record within eps in no cluster.
C20_SceneClusters ==
    SceneReturned =>
        /\ \A k \in DOMAIN call.photo_results \ ValidRecords : ClustersOf(k) = {}
        /\ Cardinality(ValidRecords) < 2 => ret.clusters = <<>>
        /\ Cardinality(ValidRecords) >= 2 =>
               \A a \in ValidRecords :
                   /\ \A b \in ValidRecords \ {a} :
                          WithinEps(a, b) => ClustersOf(a) \cap ClustersOf(b) # {}
                   /\ (\A b \in ValidRecords \ {a} : ~WithinEps(a, b))
                          => ClustersOf(a) = {}

\* Records 1 and 3 are within eps and form the one cluster; record 2 has no
\* embedding and record 4 has one that is within eps of no other.
C20_Witness ==
    /\ SceneReturned
    /\ Len(call.photo_results) = 4
    /\ ValidRecords = {1, 3, 4}
    /\ WithinEps(1, 3)
    /\ ~WithinEps(1, 4)
    /\ ~WithinEps(3, 4)
    /\ ret.clusters = <<<<FileName(1), FileName(3)>>>>

(***************************************************************************)
(* People clustering: cluster_people of pipeline.py and face_distance of   *)
(* ml_services/face_embeddings.py.  The components of a face embedding and *)
(* the distance threshold are counted in tenths, a quality score in        *)
(* hundredths.  Embeddings have one length, as the encoder's have, so      *)
(* numpy.linalg.norm does not raise and the 999.0 of the handler is never  *)
(* returned.                                                               *)
(***************************************************************************)
RECURSIVE SquaredDistanceFrom(_, _, _)
SquaredDistanceFrom(encoding1, encoding2, k) ==
    IF k > Len(encoding1) THEN 0
    ELSE (encoding1[k] - encoding2[k]) * (encoding1[k] - encoding2[k])
         + SquaredDistanceFrom(encoding1, encoding2, k + 1)

\* face_distance(e1, e2) <= threshold: the Euclidean norm of the difference
\* is at most the threshold, decided on the squares.
FaceWithin(encoding1, encoding2, face_distance_threshold) ==
    SquaredDistanceFrom(encoding1, encoding2, 1)
        <= face_distance_threshold * face_distance_threshold

\* The faces of one photo, as the entries the loop appends to all_faces.
FacesOfPhoto(photo) ==
    [e \in 1..Len(photo.face_encodings) |->
        [filename |-> photo.filename,
         embedding |-> photo.face_encodings[e].embedding,
         box |-> photo.face_encodings[e].box,
         quality_score |-> photo.face_encodings[e].quality_score,
         confidence |-> photo.face_encodings[e].confidence]]

\* for photo in photo_results: for face_encoding in photo.get(...): append
RECURSIVE CollectFaces(_, _)
CollectFaces(photo_results, k) ==
    IF k > Len(photo_results) THEN <<>>
    ELSE FacesOfPhoto(photo_results[k]) \o CollectFaces(photo_results, k + 1)

\* A representative that is always the face seen last.
RepresentativeLatest(representative_face, face2) == face2

\* if face2["quality_score"] > representative_face["quality_score"]
Representative(representative_face, face2) ==
    IF face2.quality_score > representative_face.quality_score
    THEN face2
    ELSE representative_face

\* The inner loop from index j on, seeded by face1; st holds the cluster
\* being built and the processed set of indices.
RECURSIVE ScanLaterFaces(_, _, _, _, _)
ScanLaterFaces(all_faces, face1, j, st, face_distance_threshold) ==
    IF j > Len(all_faces) THEN st
    ELSE IF j \in st.processed
    THEN ScanLaterFaces(all_faces, face1, j + 1, st, face_distance_threshold)
    ELSE IF FaceWithin(face1.embedding, all_faces[j].embedding,
                       face_distance_threshold)
    THEN ScanLaterFaces(all_faces, face1, j + 1,
             [cluster |->
                 [person_id |-> st.cluster.person_id,
                  photo_filenames |->
                      Append(st.cluster.photo_filenames, all_faces[j].filename),
                  faces |-> Append(st.cluster.faces, all_faces[j]),
                  representative_face |->
                      Representative(st.cluster.representative_face, all_faces[j])],
              processed |-> st.processed \cup {j}],
             face_distance_threshold)
    ELSE ScanLaterFaces(all_faces, face1, j + 1, st, face_distance_threshold)

\* A person_id that is the position of the seed among all faces.
PersonIdOfSeed(clusters, n) == n - 1

\* "person_id": len(clusters), for the seed at index n.
PersonId(clusters, n) == Len(clusters)

\* A pass that keeps the clusters of one face too.
KeepClusterAlways(cluster) == TRUE

\* if len(cluster["faces"]) > 1
KeepCluster(cluster) == Len(cluster.faces) > 1

\* A turn of the outer loop that forgets which faces are in a cluster.
AfterSeedForgetting(clusters, st) ==
    [clusters |-> IF Len(st.cluster.faces) > 1 THEN Append(clusters, st.cluster)
                  ELSE clusters,
     processed |-> {}]

\* One turn of the outer loop for a seed not yet processed: st is what the
\* inner loop left.
AfterSeed(clusters, st) ==
    [clusters |-> IF KeepCluster(st.cluster) THEN Append(clusters, st.cluster)
                  ELSE clusters,
     processed |-> st.processed]

\* for i, face1 in enumerate(all_faces), from index n on (i in the source).
RECURSIVE SeedLoopFaces(_, _, _, _)
SeedLoopFaces(all_faces, n, acc, face_distance_threshold) ==
    IF n > Len(all_faces) THEN acc.clusters
    ELSE IF n \in acc.processed
    THEN SeedLoopFaces(all_faces, n + 1, acc, face_distance_threshold)
    ELSE SeedLoopFaces(all_faces, n + 1,
             AfterSeed(acc.clusters,
                 ScanLaterFaces(all_faces, all_faces[n], n + 1,
                     [cluster |->
                         [person_id |-> PersonId(acc.clusters, n),
                          photo_filenames |-> <<all_faces[n].filename>>,
                          faces |-> <<all_faces[n]>>,
                          representative_face |-> all_faces[n]],
                      processed |-> acc.processed \cup {n}],
                     face_distance_threshold)),
             face_distance_threshold)

ClusterFaces(all_faces, face_distance_threshold) ==
    IF Len(all_faces) < 2 THEN <<>>
    ELSE SeedLoopFaces(all_faces, 1, [clusters |-> <<>>, processed |-> {}],
                       face_distance_threshold)

cluster_people(photo_results, face_distance_threshold) ==
    ClusterFaces(CollectFaces(photo_results, 1), face_distance_threshold)

(***************************************************************************)
(* The calls of cluster_people that are explored: up to MaxPeoplePhotos    *)
(* records, each with no face, one face or two.  The embeddings lie on a   *)
(* line, 0.5 and 0.4 apart, so that the first and the third are 0.9 apart; *)
(* no distance equals a threshold.                                         *)
(***************************************************************************)
SampleEncoding(x, quality_score) ==
    [embedding |-> <<x, 0>>, quality_score |-> quality_score]

SampleEncodings ==
    {<<>>,
     <<SampleEncoding(0, 50)>>,
     <<SampleEncoding(5, 80)>>,
     <<SampleEncoding(9, 80)>>,
     <<SampleEncoding(0, 50), SampleEncoding(5, 80)>>,
     <<SampleEncoding(5, 80), SampleEncoding(9, 80)>>,
     <<SampleEncoding(9, 80), SampleEncoding(9, 80)>>}

\* The default 0.6 and a threshold only equal embeddings are within.
FaceThresholds == {6, 3}

\* The entries of face_encodings of a record: the e-th face found on the
\* photo has a box of its own.
FaceEncodings(es) ==
    [e \in 1..Len(es) |->
        [embedding |-> es[e].embedding,
         box |-> [x |-> 10 * e, y |-> 0, width |-> 8, height |-> 8],
         confidence |-> 100,
         quality_score |-> es[e].quality_score]]

PeopleInit ==
    /\ MainInit
    /\ checkpoint = Absent
    /\ \E n \in 0..MaxPeoplePhotos :
         \E fs \in [1..n -> SampleEncodings],
            t \in FaceThresholds :
            call = [fn |-> "cluster_people",
                    photo_results |->
                        [k \in 1..n |-> [filename |-> FileName(k),
                                         face_encodings |-> FaceEncodings(fs[k])]],
                    face_distance_threshold |-> t]
    /\ ret = None

CallClusterPeople ==
    /\ call # None
    /\ call.fn = "cluster_people"
    /\ ret = None
    /\ ret' = [clusters |->
                  cluster_people(call.photo_results, call.face_distance_threshold)]
    /\ UNCHANGED <<call, main_vars>>

PeopleSpec == PeopleInit /\ [][CallClusterPeople]_vars

PeopleReturned == call # None /\ call.fn = "cluster_people" /\ ret # None

\* The faces of the records in photo order, then encoding order: the face at
\* rank r is encoding e of photo k when r - 1 pairs come before (k, e).
FacesInOrder(rs) ==
    LET pairs == UNION {{<<k, e>> : e \in 1..Len(rs[k].face_encodings)} :
                           k \in 1..Len(rs)}
        Before(q, p) == q[1] < p[1] \/ (q[1] = p[1] /\ q[2] < p[2])
        At(r) == CHOOSE p \in pairs :
                     Cardinality({q \in pairs : Before(q, p)}) = r - 1
    IN  [r \in 1..Cardinality(pairs) |->
            [filename |-> rs[At(r)[1]].filename,
             embedding |-> rs[At(r)[1]].face_encodings[At(r)[2]].embedding,
             box |-> rs[At(r)[1]].face_encodings[At(r)[2]].box,
             quality_score |-> rs[At(r)[1]].face_encodings[At(r)[2]].quality_score,
             confidence |-> rs[At(r)[1]].face_encodings[At(r)[2]].confidence]]

\* The clusters of the greedy seed procedure over the faces fs, as lists of
\* faces.  A face is a seed when it is within the threshold of no earlier
\* seed; any other face belongs to the earliest seed it is within the
\* threshold of.
GreedySeedFaces(fs, t) ==
    LET n == Len(fs)
        seed[k \in 1..n] ==
            \A s \in 1..(k - 1) :
                seed[s] => ~FaceWithin(fs[s].embedding, fs[k].embedding, t)
        SeedOf(k) ==
            IF seed[k] THEN k
            ELSE SetMin({s \in 1..(k - 1) :
                            seed[s] /\ FaceWithin(fs[s].embedding, fs[k].embedding, t)})
        Members(s) == SelectSeq([k \in 1..n |-> k], LAMBDA k : SeedOf(k) = s)
        kept == SelectSeq([k \in 1..n |-> k],
                          LAMBDA k : seed[k] /\ Len(Members(k)) > 1)
    IN  [c \in 1..Len(kept) |->
            [j \in 1..Len(Members(kept[c])) |-> fs[Members(kept[c])[j]]]]

\* C28: cluster_people takes the faces in photo order then encoding order
\* and returns exactly the clusters of the greedy seed procedure over them:
\* a seed face, then in order every later face not yet in a cluster whose
\* distance to the seed is at most the threshold, with the filenames of
\* those faces; clusters of the seed alone are left out, and fewer than two
\* faces give no cluster.
C28_GreedySeedPeople ==
    PeopleReturned =>
        LET expected == GreedySeedFaces(FacesInOrder(call.photo_results),
                                        call.face_distance_threshold)
        IN  /\ Len(ret.clusters) = Len(expected)
            /\ \A c \in 1..Len(expected) :
                 /\ ret.clusters[c].faces = expected[c]
                 /\ ret.clusters[c].photo_filenames =
                        [j \in 1..Len(expected[c]) |-> expected[c][j].filename]
            /\ (Len(FacesInOrder(call.photo_results)) < 2 => ret.clusters = <<>>)

\* Two photos of two faces each: the second face of the second photo seeds a
\* cluster of one and is left out, although it is within the threshold of a
\* member of the one cluster returned, whose faces come from both photos.
C28_Witness ==
    /\ PeopleReturned
    /\ Len(call.photo_results) = 2
    /\ Len(ret.clusters) = 1
    /\ Len(ret.clusters[1].faces) = 3
    /\ ret.clusters[1].photo_filenames = <<FileName(1), FileName(1), FileName(2)>>
    /\ Len(call.photo_results[2].face_encodings) = 2
    /\ ret.clusters[1].faces[3].box = call.photo_results[2].face_encodings[1].box
    /\ \E m \in 1..3 :
         FaceWithin(ret.clusters[1].faces[m].embedding,
                    call.photo_results[2].face_encodings[2].embedding,
                    call.face_distance_threshold)

\* C29: the representative_face of every person cluster returned is one of
\* the faces of the cluster, and no face of the cluster has a greater
\* quality_score.
C29_RepresentativeIsBest ==
    PeopleReturned =>
        \A c \in 1..Len(ret.clusters) :
            /\ \E j \in 1..Len(ret.clusters[c].faces) :
                 ret.clusters[c].faces[j] = ret.clusters[c].representative_face
            /\ \A j \in 1..Len(ret.clusters[c].faces) :
                 ret.clusters[c].representative_face.quality_score
                     >= ret.clusters[c].faces[j].quality_score

\* A cluster of three faces whose second face is better than the seed and
\* as good as the third: the second face is the representative.
C29_Witness ==
    /\ PeopleReturned
    /\ \E c \in 1..Len(ret.clusters) :
         /\ Len(ret.clusters[c].faces) = 3
         /\ ret.clusters[c].representative_face = ret.clusters[c].faces[2]
         /\ ret.clusters[c].faces[2].quality_score
                > ret.clusters[c].faces[1].quality_score
         /\ ret.clusters[c].faces[3].quality_score
                = ret.clusters[c].faces[2].quality_score

\* C30: the cluster at position k of the output, counted from 0, has
\* person_id k.
C30_PersonIdsConsecutive ==
    PeopleReturned =>
        \A c \in 1..Len(ret.clusters) : ret.clusters[c].person_id = c - 1

\* Five faces: the third seeded a cluster of one that was left out, between
\* the two clusters returned with person_id 0 and 1.
C30_Witness ==
    /\ PeopleReturned
    /\ Len(FacesInOrder(call.photo_results)) = 5
    /\ Len(ret.clusters) = 2
    /\ ret.clusters[1].faces = SubSeq(FacesInOrder(call.photo_results), 1, 2)
    /\ ret.clusters[2].faces = SubSeq(FacesInOrder(call.photo_results), 4, 5)
    /\ ret.clusters[1].person_id = 0
    /\ ret.clusters[2].person_id = 1

(***************************************************************************)
(* The clusters report: the clustering block of main, which runs the three *)
(* passes on all_results with their default thresholds and builds          *)
(* clusters_data.  list(set(...)) leaves the order of a person's           *)
(* photo_filenames open, so that list is kept as a set.                    *)
(***************************************************************************)
default_hash_threshold == 10
default_similarity_threshold == 85
default_face_distance_threshold == 6

\* The entries of "near_duplicates" and of "scenes".
PhotoClusterEntries(clusters) ==
    [c \in 1..Len(clusters) |->
        [cluster_id |-> c - 1,
         photo_filenames |-> clusters[c],
         representative_photo |-> clusters[c][1]]]

\* The entries of "people".
PeopleEntries(people_clusters) ==
    [c \in 1..Len(people_clusters) |->
        [person_id |-> people_clusters[c].person_id,
         photo_filenames |->
             {people_clusters[c].photo_filenames[j] :
                  j \in 1..Len(people_clusters[c].photo_filenames)},
         representative_face |->
             [filename |-> people_clusters[c].representative_face.filename,
              box |-> people_clusters[c].representative_face.box,
              quality_score |-> people_clusters[c].representative_face.quality_score]]]

clusters_data(results) ==
    [near_duplicates |->
         PhotoClusterEntries(cluster_near_duplicates(results, default_hash_threshold)),
     scenes |->
         PhotoClusterEntries(cluster_scenes(results, default_similarity_threshold)),
     people |->
         PeopleEntries(cluster_people(results, default_face_distance_threshold))]

(***************************************************************************)
(* The result lists explored.  A record is one of four photos: two people  *)
(* in front of one scene, either of them alone in front of another scene   *)
(* (the second of these looking like the group photo to the hasher), and a *)
(* photo on which hashing, embedding and face encoding all failed.  Hashes *)
(* have four hex digits where the hasher's have sixteen.  filename is the  *)
(* basename of the path and find_image_files descends into                 *)
(* subdirectories, so the k-th record has a basename of its own or the     *)
(* basename of the first record.                                           *)
(***************************************************************************)
ReportHash(d) == [phash |-> <<d, d, d, d>>, dhash |-> <<d, d, d, d>>]

SamplePhotos ==
    {[hashes |-> ReportHash(0), image_embedding |-> <<1, 0>>,
      face_encodings |->
          FaceEncodings(<<SampleEncoding(0, 50), SampleEncoding(9, 80)>>)],
     [hashes |-> ReportHash(15), image_embedding |-> <<0, 1>>,
      face_encodings |-> FaceEncodings(<<SampleEncoding(0, 50)>>)],
     [hashes |-> ReportHash(0), image_embedding |-> <<0, 1>>,
      face_encodings |-> FaceEncodings(<<SampleEncoding(9, 80)>>)],
     [hashes |-> [phash |-> <<>>, dhash |-> <<>>], image_embedding |-> <<>>,
      face_encodings |-> <<>>]}

ReportInit ==
    /\ MainInit
    /\ checkpoint = Absent
    /\ \E n \in 0..MaxReportPhotos :
         \E ps \in [1..n -> SamplePhotos], own \in [1..n -> BOOLEAN] :
            call = [fn |-> "clusters_data",
                    all_results |->
                        [k \in 1..n |->
                            [filepath |-> k,
                             filename |-> IF own[k] THEN FileName(k) ELSE FileName(1),
                             hashes |-> ps[k].hashes,
                             image_embedding |-> ps[k].image_embedding,
                             face_encodings |-> ps[k].face_encodings]]]
    /\ ret = None

BuildClustersData ==
    /\ call # None
    /\ call.fn = "clusters_data"
    /\ ret = None
    /\ ret' = [clusters_data |-> clusters_data(call.all_results)]
    /\ UNCHANGED <<call, main_vars>>

ReportSpec == ReportInit /\ [][BuildClustersData]_vars

ReportBuilt == call # None /\ call.fn = "clusters_data" /\ ret # None

\* No filename is in two entries of near_duplicates or of scenes, whose
\* photo_filenames are lists.
DisjointLists(output) ==
    \A c \in 1..Len(output), d \in 1..Len(output) :
        c # d => \A j \in 1..Len(output[c].photo_filenames),
                    l \in 1..Len(output[d].photo_filenames) :
                     output[c].photo_filenames[j] # output[d].photo_filenames[l]

\* No filename is in two entries of people.
DisjointSets(output) ==
    \A c \in 1..Len(output), d \in 1..Len(output) :
        c # d => output[c].photo_filenames \cap output[d].photo_filenames = {}

\* C21 as stated: within near_duplicates, within scenes and within people,
\* no photo filename appears in more than one cluster.
C21_DisjointByFilename ==
    ReportBuilt =>
        /\ DisjointLists(ret.clusters_data.near_duplicates)
        /\ DisjointLists(ret.clusters_data.scenes)
        /\ DisjointSets(ret.clusters_data.people)

\* The records of all_results named f, and how often f stands in the lists
\* of the entries of an output.
RecordsNamed(f) ==
    {k \in 1..Len(call.all_results) : call.all_results[k].filename = f}

Occurrences(f, output) ==
    Cardinality({<<c, j>> \in (1..Len(output)) \X (1..MaxReportPhotos + 1) :
                    /\ j <= Len(output[c].photo_filenames)
                    /\ output[c].photo_filenames[j] = f})

RECURSIVE EncodingsOn(_)
EncodingsOn(ks) ==
    IF ks = {} THEN 0
    ELSE LET k == CHOOSE x \in ks : TRUE
         IN  Len(call.all_results[k].face_encodings) + EncodingsOn(ks \ {k})

\* C21 amended: the near-duplicate clusters are disjoint by filename; a
\* filename stands in the scene clusters at most once for every record of
\* that name, so scene clusters are disjoint when basenames are unique; and
\* a filename is in at most as many people clusters as the records of that
\* name have face encodings, one cluster for each person on the photo.
C21_DisjointOutputs ==
    ReportBuilt =>
        /\ DisjointLists(ret.clusters_data.near_duplicates)
        /\ \A k \in 1..Len(call.all_results) :
             LET f == call.all_results[k].filename
             IN  /\ Occurrences(f, ret.clusters_data.near_duplicates) <= 1
                 /\ Occurrences(f, ret.clusters_data.scenes)
                        <= Cardinality(RecordsNamed(f))
                 /\ Cardinality({c \in 1..Len(ret.clusters_data.people) :
                                    f \in ret.clusters_data.people[c].photo_filenames})
                        <= EncodingsOn(RecordsNamed(f))
        /\ (\A f \in {call.all_results[k].filename : k \in 1..Len(call.all_results)} :
                Cardinality(RecordsNamed(f)) = 1)
               => DisjointLists(ret.clusters_data.scenes)

\* Every record has a basename of its own; the first shows two people and is
\* in both people clusters, in a near-duplicate cluster and in a scene
\* cluster.
C21_Witness ==
    /\ ReportBuilt
    /\ \A k \in 1..Len(call.all_results) :
         call.all_results[k].filename = FileName(k)
    /\ Len(ret.clusters_data.people) = 2
    /\ FileName(1) \in ret.clusters_data.people[1].photo_filenames
    /\ FileName(1) \in ret.clusters_data.people[2].photo_filenames
    /\ Occurrences(FileName(1), ret.clusters_data.near_duplicates) = 1
    /\ Occurrences(FileName(1), ret.clusters_data.scenes) = 1

(***************************************************************************)
(* Further properties of the orchestrator.                                 *)
(***************************************************************************)
\* The checkpoint file holds a checkpoint this run loaded without an error
\* or wrote itself.
LoadedOrWritten == checkpoint.st = "json" /\ (ckpt_writes > 0 \/ ~load_failed)

\* The results a checkpoint file holds: none when the key is missing.
ResultsOf(file) == IF file.results_kind = "list" THEN file.results ELSE <<>>

\* C25: within a run, all_results only grows at its end and processed_files
\* only grows; the checkpoint written is a copy of both; and the checkpoint
\* a write replaces, when the run loaded it without an error or wrote it
\* itself, holds a prefix of the results and a subset of the processed_files
\* written in its place.
C25_StateOnlyGrows ==
    [][(pc \in Running /\ pc' \in Running \cup {"done", "aborted"})
          => /\ IsPrefix(all_results, all_results')
             /\ processed_files \subseteq processed_files'
             /\ (pc = "extend" /\ LoadedOrWritten)
                    => /\ IsPrefix(ResultsOf(checkpoint), all_results')
                       /\ checkpoint.processed_files \subseteq processed_files'
             /\ pc = "ckpt_w"
                    => /\ checkpoint' = CheckpointData(processed_files', all_results')
                       /\ all_results' = all_results
                       /\ processed_files' = processed_files]_vars

\* A run that resumed from a checkpoint of one record has written a
\* checkpoint of two.
C25_Witness ==
    /\ Resumed
    /\ Len(loaded_results) = 1
    /\ ckpt_writes = 1
    /\ checkpoint = CheckpointData(processed_files, all_results)
    /\ Len(checkpoint.results) = 2
    /\ IsPrefix(loaded_results, checkpoint.results)

(***************************************************************************)
(* The batch loop on its own: which batches it processes, and how often it *)
(* writes the checkpoint, for a list of discovered paths, the              *)
(* processed_files set the run starts with, a batch size, and the set of   *)
(* paths whose extraction returns a record.                                *)
(***************************************************************************)
\* The loop from start index n on (i in the source); acc holds the batches
\* processed and the checkpoint writes so far.
RECURSIVE BatchLoopFrom(_, _, _, _, _, _)
BatchLoopFrom(paths, n, pf, bs, ok, acc) ==
    IF n >= Len(paths) THEN acc
    ELSE IF Unprocessed(BatchSlice(paths, n, bs), pf) = <<>>
    THEN BatchLoopFrom(paths, n + bs, pf, bs, ok, acc)
    ELSE BatchLoopFrom(paths, n + bs,
             pf \cup {p \in ok : \E k \in (n + 1)..(n + bs) :
                                    k <= Len(paths) /\ paths[k] = p},
             bs, ok,
             [batches |-> Append(acc.batches,
                                 Unprocessed(BatchSlice(paths, n, bs), pf)),
              checkpoint_writes |-> acc.checkpoint_writes + 1])

BatchLoop(paths, pf, bs, ok) ==
    BatchLoopFrom(paths, 0, pf, bs, ok, [batches |-> <<>>, checkpoint_writes |-> 0])

LoopInit ==
    /\ MainInit
    /\ checkpoint = Absent
    /\ \E n \in 0..MaxLoopFiles, bs \in 1..MaxBatch :
         \E pf \in SUBSET (1..n), ok \in SUBSET (1..n) :
            call = [fn |-> "batch_loop", image_files |-> [k \in 1..n |-> k],
                    processed_files |-> pf, batch_size |-> bs, ok |-> ok]
    /\ ret = None

RunBatchLoop ==
    /\ call # None
    /\ call.fn = "batch_loop"
    /\ ret = None
    /\ ret' = BatchLoop(call.image_files, call.processed_files, call.batch_size, call.ok)
    /\ UNCHANGED <<call, main_vars>>

LoopSpec == LoopInit /\ [][RunBatchLoop]_vars

LoopReturned == call # None /\ call.fn = "batch_loop" /\ ret # None

RECURSIVE Flatten(_)
Flatten(lists) == IF lists = <<>> THEN <<>> ELSE Head(lists) \o Flatten(Tail(lists))

\* The discovered paths not in the processed_files set the run starts with,
\* in discovery order.
StillToProcess ==
    SelectSeq(call.image_files, LAMBDA p : p \notin call.processed_files)

\* C24 as stated: the paths still to be processed are cut in discovery
\* order into batches of exactly batch_size paths, only the last of which
\* may be smaller, and the checkpoint is written once per batch.
C24_FullBatches ==
    LoopReturned =>
        /\ Flatten(ret.batches) = StillToProcess
        /\ \A k \in 1..Len(ret.batches) :
             IF k < Len(ret.batches)
             THEN Len(ret.batches[k]) = call.batch_size
             ELSE Len(ret.batches[k]) \in 1..call.batch_size
        /\ ret.checkpoint_writes = Len(ret.batches)

\* Slice k of the whole list of discovered paths, k counted from 1: the
\* paths at positions (k - 1) * batch_size + 1 to k * batch_size.
SliceOfAll(k) ==
    SelectSeq(call.image_files,
              LAMBDA p : \E pos \in ((k - 1) * call.batch_size + 1)..(k * call.batch_size) :
                             pos <= Len(call.image_files) /\ call.image_files[pos] = p)

\* C24 amended: it is the whole list of discovered paths that is cut in
\* discovery order into slices of batch_size paths; a batch is what is left
\* of a slice without the paths already processed, so it holds between one
\* and batch_size paths wherever it stands; a slice with nothing left is
\* skipped; the batches together are the paths still to be processed, in
\* discovery order; and the checkpoint is written once per batch.
C24_SlicedThenFiltered ==
    LoopReturned =>
        /\ ret.batches =
               SelectSeq([k \in 1..Len(call.image_files) |->
                             SelectSeq(SliceOfAll(k),
                                       LAMBDA p : p \notin call.processed_files)],
                         LAMBDA b : b # <<>>)
        /\ Flatten(ret.batches) = StillToProcess
        /\ \A k \in 1..Len(ret.batches) : Len(ret.batches[k]) \in 1..call.batch_size
        /\ ret.checkpoint_writes = Len(ret.batches)

\* Three paths, the first already processed, batch size 2: the first batch
\* holds the second path alone, and a batch with the third follows.
C24_Witness ==
    /\ LoopReturned
    /\ call.image_files = <<1, 2, 3>>
    /\ call.processed_files = {1}
    /\ call.batch_size = 2
    /\ ret.batches = <<<<2>>, <<3>>>>
    /\ ret.checkpoint_writes = 2

(***************************************************************************)
(* Crashes and restarts with extraction outcomes that do not change: what  *)
(* the collaborators do for a photo is fixed for the whole behaviour and   *)
(* held in call.  The first start finds no checkpoint or is given --fresh; *)
(* every later start is without --fresh, after a crash, after a clustering *)
(* pass that raised, or after a run that completed.                        *)
(***************************************************************************)
DetInit ==
    /\ MainInit
    /\ \E outcome \in [Paths -> ExtOutcomes] :
           call = [fn |-> "main", outcome |-> outcome]
    /\ ret = None

DetStart ==
    /\ pc = "start"
    /\ \E f \in BOOLEAN, bs \in 1..MaxBatch :
        /\ checkpoint.st # "absent" => f
        /\ StartRunWith(f, bs)

DetRestart ==
    /\ pc \in {"crashed", "aborted", "done"}
    /\ \E bs \in 1..MaxBatch : StartRunWith(FALSE, bs)

DetProcessNext ==
    /\ pc = "photo"
    /\ batch # <<>>
    /\ ProcessWith(call.outcome[Head(batch)])

DetNext ==
    \/ DetStart
    \/ DetRestart
    \/ Crash
    \/ LoopHead
    \/ DetProcessNext
    \/ ExtendAndOpenCheckpoint
    \/ DumpCheckpoint
    \/ BatchOpenParquet
    \/ BatchWriteParquet
    \/ BatchOpenJson
    \/ BatchWriteJson
    \/ LoopExit
    \/ FinalOpenParquet
    \/ FinalWriteParquet
    \/ FinalOpenJson
    \/ FinalWriteJson
    \/ Clustering

DetSpec == DetInit /\ [][DetNext]_vars

\* The results of one run from empty state that nothing interrupts: the
\* record of every path whose extraction returns one, in discovery order.
UninterruptedResults(outcome) ==
    Flatten([k \in 1..Len(image_files) |->
                process_photo(image_files[k], outcome[image_files[k]])])

\* C23: whenever a run completes, after whatever crashes and restarts
\* without --fresh, all_results is the results sequence of a single
\* uninterrupted run: the same records in the same order.
C23_ResumeEquivalence ==
    (call # None /\ call.fn = "main" /\ pc = "done")
        => all_results = UninterruptedResults(call.outcome)

\* A run that resumed from a checkpoint holding one record of two has
\* completed with both.
C23_Witness ==
    /\ call # None
    /\ call.fn = "main"
    /\ pc = "done"
    /\ run > 1
    /\ Resumed
    /\ Len(loaded_results) = 1
    /\ Len(all_results) = 2

(***************************************************************************)
(* Restart after every crash.  main is started once and started again,     *)
(* without --fresh, whenever the process has died: killed, or ended by a   *)
(* clustering pass that raised.  A run that returns is not started again.  *)
(* Crashes stop: the last of the MaxRuns runs is not killed and its        *)
(* clustering does not raise.  The process takes its next step when it has *)
(* one, and a dead process is started again: weak fairness on the steps    *)
(* other than the crash.                                                   *)
(***************************************************************************)
LiveStart ==
    /\ pc = "start"
    /\ StartRun

LiveRestart ==
    /\ pc \in {"crashed", "aborted"}
    /\ \E bs \in 1..MaxBatch : StartRunWith(FALSE, bs)

LiveCrash ==
    /\ run < MaxRuns
    /\ Crash

LiveClustering ==
    \E skip_clustering \in BOOLEAN, raising \in 0..Len(ClusterPasses) :
        /\ raising > 0 => run < MaxRuns
        /\ ClusteringWith(skip_clustering, raising)

LiveStep ==
    \/ LiveStart
    \/ LiveRestart
    \/ LoopHead
    \/ ProcessNext
    \/ ExtendAndOpenCheckpoint
    \/ DumpCheckpoint
    \/ BatchOpenParquet
    \/ BatchWriteParquet
    \/ BatchOpenJson
    \/ BatchWriteJson
    \/ LoopExit
    \/ FinalOpenParquet
    \/ FinalWriteParquet
    \/ FinalOpenJson
    \/ FinalWriteJson
    \/ LiveClustering

LiveNext == LiveStep \/ LiveCrash

LiveSpec == Init /\ [][LiveNext]_vars /\ WF_vars(LiveStep)

Packages == {"face_recognition", "mediapipe", "ultralytics", "sentence_transformers"}

\* from ml_services.person_detection import detect_persons runs
\* `from ultralytics import YOLO`, and from ml_services.image_embeddings
\* import get_image_embedding runs `from sentence_transformers import
\* SentenceTransformer`; neither stands in a try block.  face_recognition
\* and mediapipe are imported under try/except ImportError.
ImportsSucceed(installed) ==
    /\ "ultralytics" \in installed
    /\ "sentence_transformers" \in installed

\* The image of the call and what the backends find on it: face_recognition
\* one face (confidence 1.0), MediaPipe the same face with a box and scores
\* of its own, YOLO one person.
SampleImage == [width |-> 8, height |-> 6]
FaceRecognitionFaces == <<Detection(2, 1, 2, 2, 10, 6)>>
MediaPipeFaces == <<Detection(2, 1, 3, 3, 5, 4)>>
YoloPersons == <<Detection(1, 0, 4, 6, 9, 5)>>

\* _detect_faces_mediapipe: [] when nothing is detected or anything raises
\* (a missing model file included).
detect_faces_mediapipe(found, raises) ==
    IF found.mediapipe /\ ~raises.mediapipe THEN MediaPipeFaces ELSE <<>>

\* detect_faces: found says which detector finds the face on the photo,
\* raises which of them raises on this call.  face_recognition first;
\* MediaPipe when it is not installed, finds nothing or raises.
detect_faces(installed, found, raises) ==
    IF /\ "face_recognition" \in installed
       /\ ~raises.face_recognition
       /\ found.face_recognition
    THEN FaceRecognitionFaces
    ELSE IF "mediapipe" \in installed
    THEN detect_faces_mediapipe(found, raises)
    ELSE <<>>

\* detect_persons: [] on any exception.
detect_persons(outcome) == IF outcome = "persons" THEN YoloPersons ELSE <<>>

\* get_image_embedding: [] on any exception.
get_image_embedding(outcome) == IF outcome = "ok" THEN <<1, 0>> ELSE <<>>

\* get_face_embeddings: one encoding per face location; [] without
\* face_recognition or on any exception.
get_face_embeddings(installed, face_locations, outcome) ==
    IF "face_recognition" \in installed /\ outcome = "ok"
    THEN [k \in 1..Len(face_locations) |-> <<k, 0>>]
    ELSE <<>>

\* Lines 47-59 of face_embeddings.py: the encodings combined with the
\* detections they were computed for.
CombineEncodings(face_encodings, face_detections) ==
    [k \in 1..Min2(Len(face_encodings), Len(face_detections)) |->
        [embedding |-> face_encodings[k],
         box |-> face_detections[k].box,
         confidence |-> face_detections[k].confidence,
         quality_score |-> face_detections[k].quality_score]]

\* get_face_encodings_for_photo, given what its own call of detect_faces
\* returned.
EncodingsFor(installed, face_detections, outcome) ==
    IF face_detections = <<>> THEN <<>>
    ELSE CombineEncodings(
             get_face_embeddings(installed,
                 [k \in 1..Len(face_detections) |->
                     <<face_detections[k].box.y,
                       face_detections[k].box.x + face_detections[k].box.width,
                       face_detections[k].box.y + face_detections[k].box.height,
                       face_detections[k].box.x>>],
                 outcome),
             face_detections)

get_face_encodings_for_photo(installed, found, raises, outcome) ==
    EncodingsFor(installed, detect_faces(installed, found, raises), outcome)

\* The fields of a detection that the record keeps.
Stripped(detections) ==
    [k \in 1..Len(detections) |->
        [box |-> detections[k].box,
         confidence |-> detections[k].confidence,
         quality_score |-> detections[k].quality_score]]

\* The strategy calculate_smart_crop answers with: the face strategy when
\* there is a face, the person strategy when there is none and there is a
\* person, the centre crop otherwise.
CropStrategy(faces, persons) ==
    IF faces # <<>> THEN "face"
    ELSE IF persons # <<>> THEN "person"
    ELSE "saliency"

\* Lines 181-235 of pipeline.py: the crops and the result dictionary.  Of a
\* crop the record of this model keeps the method.
PhotoResult(faces, persons, image_embedding, face_encodings) ==
    [width |-> SampleImage.width,
     height |-> SampleImage.height,
     image_embedding |-> image_embedding,
     faces |-> Stripped(faces),
     face_encodings |-> face_encodings,
     persons |-> Stripped(persons),
     crops |-> [aspect_ratio \in ASPECT_RATIOS |->
                   [method |-> CropStrategy(faces, persons)]]]

\* One truth value for each of the two face detectors.
PerDetector == [face_recognition : BOOLEAN, mediapipe : BOOLEAN]

\* found: which detector finds the face; faces and encoding_faces: which
\* detector raises in the call of detect_faces at pipeline.py 166 and in the
\* one at face_embeddings.py 27; persons, image_embedding, encodings: what
\* detect_persons, get_image_embedding and face_recognition.face_encodings
\* do.
PhotoInit ==
    /\ MainInit
    /\ checkpoint = Absent
    /\ \E installed \in SUBSET Packages, found \in PerDetector,
          faces \in PerDetector, encoding_faces \in PerDetector :
         \E persons \in {"persons", "raises"}, image_embedding \in {"ok", "raises"},
            encodings \in {"ok", "raises"} :
            call = [fn |-> "process_photo",
                    installed |-> installed,
                    found |-> found,
                    faces |-> faces,
                    persons |-> persons,
                    image_embedding |-> image_embedding,
                    encoding_faces |-> encoding_faces,
                    encodings |-> encodings]
    /\ ret = None

\* python pipeline.py on one photo: the imports, then process_photo, whose
\* detectors run in the order of lines 166-179; faces and persons are the
\* lists the crops and the record are built from.
CallProcessPhoto ==
    /\ call # None
    /\ call.fn = "process_photo"
    /\ ret = None
    /\ IF ImportsSucceed(call.installed)
       THEN \E faces \in {detect_faces(call.installed, call.found, call.faces)} :
            \E persons \in {IF Len(faces) = 0 \/ Len(faces) > 3
                            THEN detect_persons(call.persons) ELSE <<>>} :
                ret' = [raised |-> "none",
                        result |->
                            PhotoResult(faces, persons,
                                get_image_embedding(call.image_embedding),
                                get_face_encodings_for_photo(call.installed,
                                    call.found, call.encoding_faces, call.encodings))]
       ELSE ret' = [raised |-> "ImportError"]
    /\ UNCHANGED <<call, main_vars>>

PhotoSpec == PhotoInit /\ [][CallProcessPhoto]_vars

PhotoReturned == call # None /\ call.fn = "process_photo" /\ ret # None

\* A backend that is not installed, or that raised when it was called.
FaceDetectorDown ==
    /\ "face_recognition" \notin call.installed \/ call.faces.face_recognition
    /\ "mediapipe" \notin call.installed \/ call.faces.mediapipe
PersonDetectorDown == "ultralytics" \notin call.installed \/ call.persons = "raises"
SceneEmbedderDown ==
    "sentence_transformers" \notin call.installed \/ call.image_embedding = "raises"
FaceEncoderDown == "face_recognition" \notin call.installed \/ call.encodings = "raises"

\* C26: whichever backends are unavailable or fail, process_photo returns a
\* record (whose path main then adds to processed_files), with the field of
\* each such backend empty, and every crop computed by the first strategy
\* that has detections: face, then person, then the centre crop.
C26_DegradesGracefully ==
    PhotoReturned =>
        /\ ret.raised = "none"
        /\ FaceDetectorDown => ret.result.faces = <<>>
        /\ PersonDetectorDown => ret.result.persons = <<>>
        /\ SceneEmbedderDown => ret.result.image_embedding = <<>>
        /\ FaceEncoderDown => ret.result.face_encodings = <<>>
        /\ \A aspect_ratio \in ASPECT_RATIOS :
             ret.result.crops[aspect_ratio].method =
                 IF ret.result.faces # <<>> THEN "face"
                 ELSE IF ret.result.persons # <<>> THEN "person"
                 ELSE "saliency"

\* C27: in the record returned, face_encodings is no longer than faces, and
\* the i-th encoding carries the box, confidence and quality_score of the
\* i-th entry of faces.
C27_EncodingsMatchFaces ==
    (PhotoReturned /\ ret.raised = "none") =>
        /\ Len(ret.result.face_encodings) <= Len(ret.result.faces)
        /\ \A k \in 1..Len(ret.result.face_encodings) :
             /\ k <= Len(ret.result.faces)
             /\ ret.result.face_encodings[k].box = ret.result.faces[k].box
             /\ ret.result.face_encodings[k].confidence = ret.result.faces[k].confidence
             /\ ret.result.face_encodings[k].quality_score
                    = ret.result.faces[k].quality_score

====
